---- MODULE Spec2Model ----
(***************************************************************************)
(* DOOM RETRO configuration persistence (src/src/m_config.c) and music     *)
(* driver (src/src/i_music.c).                                             *)
(*                                                                         *)
(* Text is modelled at the character level: a C string is a sequence of    *)
(* one-character strings, the settings file is the sequence of characters  *)
(* that fprintf wrote or that fscanf reads.  An int is a 32-bit signed     *)
(* integer.  A float is held in thousandths (1500 is 1.5), which is exact  *)
(* for every literal of at most three decimals.                            *)
(***************************************************************************)
EXTENDS Integers, Sequences, FiniteSets, TLC

VARIABLES
    cvars,      \* the registry: cvars[] with its untranslated/original_translated fields
    mem,        \* the variables the registry's location pointers refer to, and the
                \* other globals M_CheckDefaults writes
    file,       \* PACKAGE_CONFIG on disk: [exists, writable, data]
    binds,      \* the C_Bind(control, action) calls made so far, in order
    actions,    \* the input layer's action list that SaveDefaultCollection walks
    console,    \* the messages C_Output has printed
    hist,       \* what the last LoadDefaultCollection returned and left in memory
    pc          \* where the program is: "boot", "running"
                \* "rt_start" .. "rt_end" in SpecRT, "music" in SpecMusic

vars == <<cvars, mem, file, binds, actions, console, hist, pc>>

(***************************************************************************)
(* Characters                                                              *)
(***************************************************************************)
Chars(s) == [i \in 1..Len(s) |-> SubSeq(s, i, i)]

\* the printable ASCII characters, codes 32..126, in code order
\* (code 96, the grave accent, cannot be written in a string: it is the atom GRAVE)
GRAVE == "GRAVE"
Ascii == Chars(" !\"#$%&'()*+,-./0123456789:;<=>?@ABCDEFGHIJKLMNOPQRSTUVWXYZ[\\]^_")
         \o <<GRAVE>> \o Chars("abcdefghijklmnopqrstuvwxyz{|}~")

NL  == "\n"
CR  == "\r"
TAB == "\t"

PrintSet == {Ascii[i] : i \in 1..Len(Ascii)}
SpaceSet == {" ", NL, CR, TAB}
CharSet  == PrintSet \cup SpaceSet

OrdMap == [c \in CharSet |->
             IF c = NL THEN 10
             ELSE IF c = CR THEN 13
             ELSE IF c = TAB THEN 9
             ELSE 31 + (CHOOSE i \in 1..Len(Ascii) : Ascii[i] = c)]

Ord(c) == OrdMap[c]

\* isprint() in the C locale, on an int
isprint(n) == n >= 32 /\ n <= 126

\* the character fprintf("%c") writes for a printable code
Chr(n) == Ascii[n - 31]

isspace(c) == c \in SpaceSet

\* tolower() on a character code
tolower(n) == IF n >= 65 /\ n <= 90 THEN n + 32 ELSE n

LowerMap == [c \in CharSet |->
               IF c \in PrintSet /\ OrdMap[c] >= 65 /\ OrdMap[c] <= 90
               THEN Ascii[OrdMap[c] + 1] ELSE c]

LowerStr(s) == [i \in 1..Len(s) |-> LowerMap[s[i]]]

\* !strcasecmp(a, b)
strcaseeq(a, b) == LowerStr(a) = LowerStr(b)

DigitSet    == {"0", "1", "2", "3", "4", "5", "6", "7", "8", "9"}
OctDigitSet == {"0", "1", "2", "3", "4", "5", "6", "7"}
HexDigitSet == DigitSet \cup {"a", "b", "c", "d", "e", "f", "A", "B", "C", "D", "E", "F"}

\* the value of a digit character (decimal, octal or hexadecimal)
DigitVal(c) ==
    LET Of(n) == IF c \in DigitSet THEN n - 48 ELSE tolower(n) - 87
    IN  Of(Ord(c))

HexDigits == Chars("0123456789abcdef")

INT_MAX == 2147483647
INT_MIN == -INT_MAX - 1


(***************************************************************************)
(* printf and scanf conversions                                            *)
(***************************************************************************)
RECURSIVE FmtNat(_)
\* the decimal digits of n >= 0
FmtNat(n) == IF n < 10 THEN <<Chr(48 + n)>>
             ELSE FmtNat(n \div 10) \o <<Chr(48 + (n % 10))>>

\* FmtInt with the sign left out, as "%u" of the magnitude would print it
FmtInt_NoSign(v) == IF v = INT_MIN THEN Chars("2147483648")
                    ELSE IF v < 0 THEN FmtNat(-v)
                    ELSE FmtNat(v)

\* fprintf "%i"
FmtInt(v) == IF v = INT_MIN THEN Chars("-2147483648")
             ELSE IF v < 0 THEN <<"-">> \o FmtNat(-v)
             ELSE FmtNat(v)

RECURSIVE FmtHexNat(_)
FmtHexNat(n) == IF n < 16 THEN <<HexDigits[n + 1]>>
                ELSE FmtHexNat(n \div 16) \o <<HexDigits[(n % 16) + 1]>>

\* fprintf "%x": the int is printed as the unsigned value v mod 2^32
FmtHex(v) ==
    IF v >= 0 THEN FmtHexNat(v)
    ELSE LET low == v - INT_MIN                  \* v + 2^31, in 0 .. 2^31 - 1
             top == 8 + (low \div 268435456)     \* the top nibble, with bit 31 set
             rest == FmtHexNat(low % 268435456)
         IN  <<HexDigits[top + 1]>>
             \o [i \in 1..(7 - Len(rest)) |-> "0"] \o rest

SpanStep == 16      \* characters Span looks at in one step

\* the length of the longest run of characters of S in s from index p on,
\* at most width long
RECURSIVE Span(_, _, _, _)
Span(s, p, width, S) ==
    LET rest == IF Len(s) - p + 1 < width THEN Len(s) - p + 1 ELSE width
        lim  == IF rest < SpanStep THEN rest ELSE SpanStep
        stop == {x \in 0..(lim - 1) : s[p + x] \notin S}
    IN  IF stop # {} THEN CHOOSE x \in stop : \A y \in stop : x <= y
        ELSE IF lim = rest THEN (IF lim < 0 THEN 0 ELSE lim)
        ELSE lim + Span(s, p + lim, width - lim, S)

\* the value of the digit string ds in the given base, or -1 when it does not
\* fit in max
RECURSIVE AccDigits(_, _, _, _)
AccDigits(ds, base, acc, max) ==
    IF ds = <<>> THEN acc
    ELSE LET Add(d) == IF acc > (max - d) \div base THEN -1
                        ELSE AccDigits(Tail(ds), base, acc * base + d, max)
         IN  Add(DigitVal(Head(ds)))

\* What a failed or overflowing conversion leaves in parm.  sscanf stores
\* nothing on a matching failure, so ParseIntParameter returns its
\* uninitialised local; a literal out of int range is converted differently
\* by different C libraries.  Both are the caller-chosen value garbage.
Indeterminate(garbage) == [ok |-> FALSE, val |-> garbage]

\* sscanf(s, "%10x", &parm): optional sign, optional 0x, hex digits, ten
\* characters at most; the unsigned result is stored in an int
ScanHex(s, garbage) ==
    LET Value(neg, n, sig) ==                   \* sig: the digits without leading zeros
            LET lowv == AccDigits(IF Len(sig) = 8 THEN Tail(sig) ELSE sig, 16, 0, INT_MAX)
                topd == IF Len(sig) = 8 THEN DigitVal(Head(sig)) ELSE 0
                u    == IF topd >= 8
                        THEN ((topd - 8) * 268435456 + lowv) + INT_MIN    \* bit 31 set
                        ELSE topd * 268435456 + lowv
            IN  IF n = 0 \/ Len(sig) > 8 THEN Indeterminate(garbage)
                ELSE IF neg THEN (IF u = INT_MIN THEN [ok |-> TRUE, val |-> u]
                                  ELSE [ok |-> TRUE, val |-> -u])
                ELSE [ok |-> TRUE, val |-> u]
        Digits(neg, ds) ==
            Value(neg, Len(ds), SubSeq(ds, Span(ds, 1, Len(ds), {"0"}) + 1, Len(ds)))
        From(p0) ==
            LET w    == 10
                sgn  == IF p0 <= Len(s) /\ s[p0] \in {"+", "-"} THEN 1 ELSE 0
                p1   == p0 + sgn
                w1   == w - sgn
                pre  == IF w1 >= 2 /\ p1 + 1 <= Len(s) /\ s[p1] = "0"
                           /\ s[p1 + 1] \in {"x", "X"}
                        THEN 2 ELSE 0
                p2   == p1 + pre
            IN  Digits(sgn = 1 /\ s[p0] = "-",
                       SubSeq(s, p2, p2 + Span(s, p2, w1 - pre, HexDigitSet) - 1))
    IN  From(1 + Span(s, 1, Len(s), SpaceSet))

\* sscanf(s, "%10i", &parm): optional sign, then 0x hex, 0 octal or decimal
\* digits, ten characters at most
ScanInt(s, garbage) ==
    LET Value(neg, n, mag) ==
            IF n = 0 \/ mag = -1 THEN Indeterminate(garbage)
            ELSE [ok |-> TRUE, val |-> IF neg THEN -mag ELSE mag]
        Digits(neg, base, ds) == Value(neg, Len(ds), AccDigits(ds, base, 0, INT_MAX))
        From(p0) ==
            LET w    == 10
                sgn  == IF p0 <= Len(s) /\ s[p0] \in {"+", "-"} THEN 1 ELSE 0
                p1   == p0 + sgn
                w1   == w - sgn
                hex  == w1 >= 2 /\ p1 + 1 <= Len(s) /\ s[p1] = "0"
                           /\ s[p1 + 1] \in {"x", "X"}
                oct  == ~hex /\ p1 <= Len(s) /\ s[p1] = "0"
                S    == IF hex THEN HexDigitSet ELSE IF oct THEN OctDigitSet ELSE DigitSet
                p2   == IF hex THEN p1 + 2 ELSE p1
            IN  Digits(sgn = 1 /\ s[p0] = "-",
                       IF hex THEN 16 ELSE IF oct THEN 8 ELSE 10,
                       SubSeq(s, p2, p2 + Span(s, p2, IF hex THEN w1 - 2 ELSE w1, S) - 1))
    IN  From(1 + Span(s, 1, Len(s), SpaceSet))

\* atof(s) as a float, in thousandths: optional sign, digits, optional
\* fraction; 0 when no number starts the text.  Digits past the third decimal
\* are dropped and exponents are not read: the texts the model loads have
\* neither.
Atof(s) ==
    LET Value(neg, ni, nf, ip, fd) ==
            LET fp  == AccDigits(fd \o [i \in 1..(3 - Len(fd)) |-> "0"], 10, 0, 999)
                mag == (IF ip = -1 THEN 2000000 ELSE ip) * 1000 + fp
            IN  IF ni = 0 /\ nf = 0 THEN 0
                ELSE IF neg THEN -mag ELSE mag
        Fraction(neg, p1, ni, nf) ==
            Value(neg, ni, nf, AccDigits(SubSeq(s, p1, p1 + ni - 1), 10, 0, 2000000),
                  SubSeq(s, p1 + ni + 1, p1 + ni + (IF nf > 3 THEN 3 ELSE nf)))
        Integer(neg, p1, ni) ==
            Fraction(neg, p1, ni,
                     IF p1 + ni <= Len(s) /\ s[p1 + ni] = "."
                     THEN Span(s, p1 + ni + 1, Len(s), DigitSet) ELSE 0)
        Sign(p0, sgn) ==
            Integer(sgn = 1 /\ s[p0] = "-", p0 + sgn, Span(s, p0 + sgn, Len(s), DigitSet))
        From(p0) == Sign(p0, IF p0 <= Len(s) /\ s[p0] \in {"+", "-"} THEN 1 ELSE 0)
    IN  From(1 + Span(s, 1, Len(s), SpaceSet))

\* fprintf "%.*f" of the float m (in thousandths) with prec decimals, prec in
\* 0..2.  A value that lies exactly between two printable values is rounded
\* away from zero here; in C the side depends on the binary value of the float.
FmtFixed(m, prec) ==
    LET a     == IF m < 0 THEN -m ELSE m
        unit  == IF prec = 2 THEN 10 ELSE IF prec = 1 THEN 100 ELSE 1000
        q     == (a + unit \div 2) \div unit          \* in units of 10^-prec
        scale == IF prec = 2 THEN 100 ELSE IF prec = 1 THEN 10 ELSE 1
        ipart == FmtNat(q \div scale)
        fdig  == FmtNat(q % scale)
        fpart == IF prec = 0 THEN <<>>
                 ELSE <<".">> \o [i \in 1..(prec - Len(fdig)) |-> "0"] \o fdig
    IN  (IF m < 0 THEN <<"-">> ELSE <<>>) \o ipart \o fpart

\* striptrailingzero without the stripping
striptrailingzero_KeepZero(value, precision) ==
    FmtFixed(value, IF precision = 2 THEN 2
                    ELSE IF value % 1000 # 0 THEN 1 ELSE 0)

striptrailingzero(value, precision) ==
    LET result == FmtFixed(value, IF precision = 2 THEN 2
                                  ELSE IF value % 1000 # 0 THEN 1 ELSE 0)
        len    == Len(result)
    IN  IF len >= 4 /\ result[len - 2] = "." /\ result[len] = "0"
        THEN SubSeq(result, 1, len - 1)
        ELSE result

(***************************************************************************)
(* The tables of m_config.c                                                *)
(***************************************************************************)
INVALIDKEY == -1

\* the key codes of doomkeys.h that scantokey names
doomkeys ==
    [ KEY_BACKSPACE |-> 127,
      KEY_RCTRL |-> 157,
      KEY_RSHIFT |-> 182,
      KEY_RALT |-> 184,
      KEY_CAPSLOCK |-> 186,
      KEY_TILDE |-> 96,
      KEY_PAUSE |-> 255,
      KEY_SCRLCK |-> 198,
      KEY_HOME |-> 199,
      KEY_UPARROW |-> 173,
      KEY_PGUP |-> 201,
      KEY_MINUS |-> 45,
      KEY_LEFTARROW |-> 172,
      KEY_RIGHTARROW |-> 174,
      KEY_END |-> 207,
      KEY_DOWNARROW |-> 175,
      KEY_PGDN |-> 209,
      KEY_INS |-> 210,
      KEY_DEL |-> 211,
      KEYP_MULTIPLY |-> 42,
      KEYP_PLUS |-> 43,
      KEYP_5 |-> 53 ]

\* scantokey[128]; the C index i is position i + 1
scantokey ==
    LET Table(K, ord) ==
            << 0,                  27,                 ord["1"],           ord["2"],
               ord["3"],           ord["4"],           ord["5"],           ord["6"],
               ord["7"],           ord["8"],           ord["9"],           ord["0"],
               ord["-"],           ord["="],           K.KEY_BACKSPACE,    9,
               ord["q"],           ord["w"],           ord["e"],           ord["r"],
               ord["t"],           ord["y"],           ord["u"],           ord["i"],
               ord["o"],           ord["p"],           ord["["],           ord["]"],
               13,                 K.KEY_RCTRL,        ord["a"],           ord["s"],
               ord["d"],           ord["f"],           ord["g"],           ord["h"],
               ord["j"],           ord["k"],           ord["l"],           ord[";"],
               ord["'"],           K.KEY_TILDE,        K.KEY_RSHIFT,       ord["\\"],
               ord["z"],           ord["x"],           ord["c"],           ord["v"],
               ord["b"],           ord["n"],           ord["m"],           ord[","],
               ord["."],           ord["/"],           K.KEY_RSHIFT,       K.KEYP_MULTIPLY,
               K.KEY_RALT,         ord[" "],           K.KEY_CAPSLOCK,     INVALIDKEY,
               INVALIDKEY,         INVALIDKEY,         INVALIDKEY,         INVALIDKEY,
               INVALIDKEY,         INVALIDKEY,         INVALIDKEY,         INVALIDKEY,
               INVALIDKEY,         K.KEY_PAUSE,        K.KEY_SCRLCK,       K.KEY_HOME,
               K.KEY_UPARROW,      K.KEY_PGUP,         K.KEY_MINUS,        K.KEY_LEFTARROW,
               K.KEYP_5,           K.KEY_RIGHTARROW,   K.KEYP_PLUS,        K.KEY_END,
               K.KEY_DOWNARROW,    K.KEY_PGDN,         K.KEY_INS,          K.KEY_DEL,
               0,                  0,                  0,                  INVALIDKEY,
               INVALIDKEY,         0,                  0,                  0,
               0,                  0,                  0,                  0,
               0,                  0,                  0,                  0,
               0,                  0,                  0,                  0,
               0,                  0,                  0,                  0,
               0,                  0,                  0,                  0,
               0,                  0,                  0,                  0,
               0,                  0,                  0,                  0,
               0,                  0,                  0,                  0,
               0,                  0,                  0,                  0 >>
    IN  Table(doomkeys, OrdMap)

A(text, value, set) == [text |-> Chars(text), value |-> value, set |-> set]

\* aliases[], up to and including the row of empty text that ends it
aliases ==
    LET Rows(t) == [j \in 1..Len(t) |-> A(t[j][1], t[j][2], t[j][3])]
    IN  Rows(<< <<"off", 0, 1>>,                <<"on", 1, 1>>,
               <<"0", 0, 1>>,                  <<"1", 1, 1>>,
               <<"no", 0, 1>>,                 <<"yes", 1, 1>>,
               <<"false", 0, 1>>,              <<"true", 1, 1>>,
               <<"-", 0, 2>>,                  <<"none", 0, 2>>,
               <<"dpadup", 1, 2>>,             <<"dpaddown", 2, 2>>,
               <<"dpadleft", 4, 2>>,           <<"dpadright", 8, 2>>,
               <<"start", 16, 2>>,             <<"back", 32, 2>>,
               <<"leftthumb", 64, 2>>,         <<"rightthumb", 128, 2>>,
               <<"leftshoulder", 256, 2>>,     <<"LS", 256, 2>>,
               <<"leftbutton", 256, 2>>,       <<"LB", 256, 2>>,
               <<"rightshoulder", 512, 2>>,    <<"RS", 512, 2>>,
               <<"rightbutton", 512, 2>>,      <<"RB", 512, 2>>,
               <<"lefttrigger", 1024, 2>>,     <<"LT", 1024, 2>>,
               <<"righttrigger", 2048, 2>>,    <<"RT", 2048, 2>>,
               <<"gamepad1", 4096, 2>>,        <<"gamepad2", 8192, 2>>,
               <<"gamepad3", 16384, 2>>,       <<"gamepad4", 32768, 2>>,
               <<"-", 0, 3>>,                  <<"none", 0, 3>>,
               <<"'+'", 13, 3>>,               <<"backspace", 14, 3>>,
               <<"tab", 15, 3>>,               <<"enter", 28, 3>>,
               <<"ctrl", 29, 3>>,              <<"shift", 42, 3>>,
               <<"alt", 56, 3>>,               <<"space", 57, 3>>,
               <<"capslock", 58, 3>>,          <<"home", 71, 3>>,
               <<"up", 72, 3>>,                <<"pageup", 73, 3>>,
               <<"left", 75, 3>>,              <<"right", 77, 3>>,
               <<"end", 79, 3>>,               <<"down", 80, 3>>,
               <<"pagedown", 81, 3>>,          <<"insert", 82, 3>>,
               <<"del", 83, 3>>,               <<"-", -1, 4>>,
               <<"none", -1, 4>>,              <<"left", 0, 4>>,
               <<"mouse1", 0, 4>>,             <<"middle", 1, 4>>,
               <<"mouse2", 1, 4>>,             <<"right", 2, 4>>,
               <<"mouse3", 2, 4>>,             <<"mouse4", 3, 4>>,
               <<"mouse5", 4, 4>>,             <<"mouse6", 5, 4>>,
               <<"mouse7", 6, 4>>,             <<"mouse8", 7, 4>>,
               <<"wheelup", 8, 4>>,            <<"wheeldown", 9, 4>>,
               <<"desktop", 0, 5>>,            <<"low", 0, 6>>,
               <<"high", 1, 6>>,               <<"-", 0, 7>>,
               <<"unlimited", 32768, 7>>,
               <<"\"Knee-Deep in the Dead\"", 0, 8>>,
               <<"\"The Shores of Hell\"", 1, 8>>, <<"\"Inferno\"", 2, 8>>,
               <<"\"Thy Flesh Consumed\"", 3, 8>>,
               <<"\"Hell on Earth\"", 0, 9>>,
               <<"\"No Rest for the Living\"", 1, 9>>,
               <<"\"I'm too young to die.\"", 0, 10>>,
               <<"\"Hey, not too rough.\"", 1, 10>>,
               <<"\"Hurt me plenty.\"", 2, 10>>,
               <<"\"Ultra-Violence.\"", 3, 10>>, <<"\"Nightmare!\"", 4, 10>>,
               <<"off", 1, 11>>,               <<"", 0, 0>> >>)

\* the rows the loops `while (aliases[j].text[0])` visit
AliasRows == 1..(Len(aliases) - 1)

\* those of them that pass the test `set == aliases[j].set`
AliasRowsOf ==
    LET Of(t) == [set \in 0..11 |-> {j \in 1..(Len(t) - 1) : t[j].set = set}]
    IN  Of(aliases)

\* where a loop that returns at the first row passing its test stops: the
\* lowest of the rows that pass, none when no row passes
FirstOr(hits, none) ==
    IF hits = {} THEN none ELSE CHOOSE j \in hits : \A k \in hits : j <= k

\* AliasOfValue without the test of the set
AliasOfValue_AnySet(v, set) ==
    LET In(t) == FirstOr({j \in 1..(Len(t) - 1) : v = t[j].value}, 0)
    IN  In(aliases)

\* the first row with this value in this set, 0 when the loop ends without one
AliasOfValue(v, set) ==
    LET In(t) == FirstOr({j \in 1..(Len(t) - 1) : t[j].set = set /\ v = t[j].value}, 0)
    IN  In(aliases)

AliasLower ==
    LET Of(t) == [j \in 1..(Len(t) - 1) |-> LowerStr(t[j].text)]
    IN  Of(aliases)

\* the first row whose text matches strparm, whatever the case, in this set
\* (!strcasecmp(strparm, aliases[i].text) && set == aliases[i].set)
AliasOfText(strparm, set) ==
    LET In(low) == FirstOr({j \in AliasRowsOf[set] : low = AliasLower[j]}, 0)
    IN  In(LowerStr(strparm))

\* as AliasOfValue, for `float v; v == aliases[j].value`
AliasOfFloat(v, set) ==
    LET In(t) ==
            FirstOr({j \in 1..(Len(t) - 1) : t[j].set = set /\ v = 1000 * t[j].value}, 0)
    IN  In(aliases)

\* the value of row j when a lookup found one (j # 0), other when it found none
AliasValueOr(j, other) == IF j # 0 THEN aliases[j].value ELSE other

\* the text of row j when a lookup found one (j # 0), other when it found none
AliasTextOr(j, other) == IF j # 0 THEN aliases[j].text ELSE other

(***************************************************************************)
(* Parsing a value                                                         *)
(***************************************************************************)
\* ParseIntParameter.  A text shorter than three characters has no strparm[2]
\* inside the string: the key-literal test then reads a byte the text does
\* not determine, and the model takes the sscanf path with its result.
ParseIntParameter(strparm, set, garbage) ==
    LET Number ==
            IF Len(strparm) >= 2 /\ strparm[1] = "0" /\ strparm[2] = "x"
            THEN ScanHex(SubSeq(strparm, 3, Len(strparm)), garbage).val
            ELSE ScanInt(strparm, garbage).val
        KeyOr(i) == IF i # -1 THEN i ELSE Number
        Key(c, t) == KeyOr(FirstOr({i \in 0..127 : c = t[i + 1]}, -1))
        Literal ==
            IF Len(strparm) >= 3 /\ strparm[1] = "'" /\ strparm[3] = "'"
            THEN Key(tolower(Ord(strparm[2])), scantokey)
            ELSE Number
    IN  AliasValueOr(AliasOfText(strparm, set), Literal)

\* ParseFloatParameter, in thousandths
ParseFloatParameter(strparm, set) ==
    LET Found(j) == IF j # 0 THEN 1000 * AliasValueOr(j, 0) ELSE Atof(strparm)
    IN  Found(AliasOfText(strparm, set))

(***************************************************************************)
(* Formatting a value: the switch of SaveDefaultCollection                 *)
(***************************************************************************)
\* what both DEFAULT_KEY paths print for the raw scancode v: its alias, the
\* quoted character it translates to, or the number.  scantokey is read at
\* v whatever v is; outside 0..127 the read is out of bounds and yields oob.
FormatScancode(v, set, oob) ==
    LET Quoted(k) == IF isprint(k) THEN <<"'", Chr(k), "'">> ELSE FmtInt(v)
    IN  AliasTextOr(AliasOfValue(v, set),
                    Quoted(IF v \in 0..127 THEN scantokey[v + 1] ELSE oob))

\* an unchanged variable is written as its untranslated scancode, a changed
\* one as the first scancode that translates to v; when the loop finds none
\* nothing is written
FormatKey(d, v, oob) ==
    LET Code(c) == IF c.found THEN FormatScancode(c.s, d.set, oob) ELSE <<>>
        Reverse(s) == [found |-> s # -1, s |-> s]
    IN  Code(IF d.untranslated # 0 /\ v = d.original_translated
             THEN [found |-> TRUE, s |-> d.untranslated]
             ELSE Reverse(FirstOr({s \in 0..127 : scantokey[s + 1] = v}, -1)))

FormatInt(d, v) == AliasTextOr(AliasOfValue(v, d.set), FmtInt(v))

FormatIntHex(d, v) == <<"0", "x">> \o FmtHex(v)

FormatIntPercent(d, v) == AliasTextOr(AliasOfValue(v, d.set), FmtInt(v) \o <<"%">>)

FormatFloat(d, v) == AliasTextOr(AliasOfFloat(v, d.set), striptrailingzero(v, 2))

FormatFloatPercent(d, v) ==
    AliasTextOr(AliasOfFloat(v, d.set), striptrailingzero(v, 1) \o <<"%">>)

FormatString(d, v) == <<"\"">> \o v \o <<"\"">>

\* the text the switch writes for descriptor d whose variable holds v
FormatValue(d, v, oob) ==
    CASE d.type = "DEFAULT_KEY"           -> FormatKey(d, v, oob)
      [] d.type = "DEFAULT_INT"           -> FormatInt(d, v)
      [] d.type = "DEFAULT_INT_HEX"       -> FormatIntHex(d, v)
      [] d.type = "DEFAULT_INT_PERCENT"   -> FormatIntPercent(d, v)
      [] d.type = "DEFAULT_FLOAT"         -> FormatFloat(d, v)
      [] d.type = "DEFAULT_FLOAT_PERCENT" -> FormatFloatPercent(d, v)
      [] d.type = "DEFAULT_STRING"        -> FormatString(d, v)

(***************************************************************************)
(* Saving                                                                  *)
(***************************************************************************)
RECURSIVE ConcatRange(_, _, _)
\* ss[lo] \o ... \o ss[hi]
ConcatRange(ss, lo, hi) ==
    IF lo > hi THEN <<>>
    ELSE IF lo = hi THEN ss[lo]
    ELSE LET mid == (lo + hi) \div 2
         IN  ConcatRange(ss, lo, mid) \o ConcatRange(ss, mid + 1, hi)

\* the texts of ss one after the other, as successive fprintf calls leave them
Concat(ss) == ConcatRange(ss, 1, Len(ss))

\* controls[] of the input layer, up to the row of type 0 that ends it:
\* the token and the value of each control of each device
controls ==
    << [type |-> "keyboard", control |-> Chars("="),        value |-> 61],
       [type |-> "keyboard", control |-> Chars("w"),        value |-> 119],
       [type |-> "keyboard", control |-> Chars("ctrl"),     value |-> doomkeys.KEY_RCTRL],
       [type |-> "mouse",    control |-> Chars("mouse1"),   value |-> 0],
       [type |-> "gamepad",  control |-> Chars("gamepad1"), value |-> 4096] >>

\* SaveBind: the line of the first control of this type and value, nothing
\* when the table has none
SaveBind(action, value, type) ==
    LET Line(control) ==
            IF Len(control) = 1
            THEN Chars("bind '") \o (IF control[1] = "=" THEN <<"+">> ELSE control)
                 \o Chars("' ") \o action \o <<NL>>
            ELSE Chars("bind ") \o control \o <<" ">> \o action \o <<NL>>
        Row(t, i) == IF i = 0 THEN <<>> ELSE Line(t[i].control)
        In(t) == Row(t, FirstOr({i \in 1..Len(t) : t[i].type = type /\ t[i].value = value},
                                0))
    IN  In(controls)

\* one pass of the first loop of SaveDefaultCollection: the record of cvars[i]
SaveRecord(d, v, oob) == d.name \o <<" ">> \o FormatValue(d, v, oob) \o <<NL>>

\* one pass of the second loop: the bind lines of one action
SaveAction(a) ==
    (IF a.keyboard.ptr THEN SaveBind(a.action, a.keyboard.val, "keyboard") ELSE <<>>)
    \o (IF a.mouse.ptr THEN SaveBind(a.action, a.mouse.val, "mouse") ELSE <<>>)
    \o (IF a.gamepad.ptr THEN SaveBind(a.action, a.gamepad.val, "gamepad") ELSE <<>>)

\* SaveText with the two loops in the other order
SaveText_BindsFirst(cv, m, acts, oob) ==
    Concat([i \in 1..Len(acts) |-> SaveAction(acts[i])])
    \o <<NL>>
    \o Concat([i \in 1..Len(cv) |-> SaveRecord(cv[i], m[cv[i].location], oob)])

\* everything SaveDefaultCollection writes between fopen and fclose
SaveText(cv, m, acts, oob) ==
    Concat([i \in 1..Len(cv) |-> SaveRecord(cv[i], m[cv[i].location], oob)])
    \o <<NL>>
    \o Concat([i \in 1..Len(acts) |-> SaveAction(acts[i])])

\* SaveDefaultCollection without the fclose that ends it
SaveDefaultCollection_NoClose(f, cv, m, acts, oob) ==
    IF ~f.writable THEN [file |-> f, io |-> <<"fopen: NULL">>]
    ELSE [file |-> [f EXCEPT !.exists = TRUE, !.data = SaveText(cv, m, acts, oob)],
          io   |-> <<"fopen">>]

\* SaveDefaultCollection: fopen(PACKAGE_CONFIG, "w") truncates or creates the
\* file; when it fails nothing is written.  io is the list of the calls that
\* open and close the file, in the order the function makes them.
SaveDefaultCollection(f, cv, m, acts, oob) ==
    IF ~f.writable THEN [file |-> f, io |-> <<"fopen: NULL">>]
    ELSE [file |-> [f EXCEPT !.exists = TRUE, !.data = SaveText(cv, m, acts, oob)],
          io   |-> <<"fopen", "fclose">>]

(***************************************************************************)
(* Loading                                                                 *)
(***************************************************************************)
NonSpaceSet == CharSet \ SpaceSet
NotNLSet    == CharSet \ {NL}

\* C_StripQuotes: drop a pair of matching quotes around a token
C_StripQuotes(t) ==
    LET len == Len(t)
    IN  IF len > 2 /\ t[1] = t[len] /\ t[1] \in {"\"", "'"}
        THEN SubSeq(t, 2, len - 1)
        ELSE t

\* fscanf(f, "bind %31s %31[^\n]\n", control, action) from position p:
\* the value returned, the position reached and the two tokens.  Characters
\* that matched the literal are consumed even when the call then fails.
ScanBind(F, p) ==
    LET lit == Chars("bind")
        non == <<>>
        m   == CHOOSE k \in 0..4 :
                  /\ \A x \in 1..k : p + x - 1 <= Len(F) /\ F[p + x - 1] = lit[x]
                  /\ (k < 4 => (p + k > Len(F) \/ F[p + k] # lit[k + 1]))
        Action(q1, n1, q2, n2) ==
            IF n2 = 0
            THEN [ret |-> 1, pos |-> q2, control |-> SubSeq(F, q1, q1 + n1 - 1),
                  action |-> non]
            ELSE [ret |-> 2, pos |-> q2 + n2 + Span(F, q2 + n2, Len(F), SpaceSet),
                  control |-> SubSeq(F, q1, q1 + n1 - 1),
                  action |-> SubSeq(F, q2, q2 + n2 - 1)]
        Gap(q1, n1, q2) == Action(q1, n1, q2, Span(F, q2, 31, NotNLSet))
        Control(q1, n1) ==
            IF n1 = 0
            THEN [ret |-> -1, pos |-> q1, control |-> non, action |-> non]
            ELSE Gap(q1, n1, q1 + n1 + Span(F, q1 + n1, Len(F), SpaceSet))
        Literal(q1) == Control(q1, Span(F, q1, 31, NonSpaceSet))
    IN  IF m < 4
        THEN [ret |-> IF p + m > Len(F) THEN -1 ELSE 0, pos |-> p + m,
              control |-> non, action |-> non]
        ELSE Literal(p + 4 + Span(F, p + 4, Len(F), SpaceSet))

\* fscanf(f, "%31s %255[^\n]\n", defname, strparm) from position p
ScanSetting(F, p) ==
    LET non == <<>>
        Value(q1, n1, q2, n2) ==
            IF n2 = 0
            THEN [ret |-> 1, pos |-> q2, defname |-> SubSeq(F, q1, q1 + n1 - 1),
                  strparm |-> non]
            ELSE [ret |-> 2, pos |-> q2 + n2 + Span(F, q2 + n2, Len(F), SpaceSet),
                  defname |-> SubSeq(F, q1, q1 + n1 - 1),
                  strparm |-> SubSeq(F, q2, q2 + n2 - 1)]
        Gap(q1, n1, q2) == Value(q1, n1, q2, Span(F, q2, 255, NotNLSet))
        Name(q1, n1) ==
            IF n1 = 0
            THEN [ret |-> -1, pos |-> q1, defname |-> non, strparm |-> non]
            ELSE Gap(q1, n1, q1 + n1 + Span(F, q1 + n1, Len(F), SpaceSet))
        Leading(q1) == Name(q1, Span(F, q1, 31, NonSpaceSet))
    IN  Leading(p + Span(F, p, Len(F), SpaceSet))

\* LoadDefaultCollection without the loop that strips strparm
StripNonPrintable_None(t) == t

\* the loop that strips trailing non-printable characters from strparm
RECURSIVE StripNonPrintable(_)
StripNonPrintable(t) ==
    IF Len(t) > 0 /\ ~isprint(Ord(t[Len(t)]))
    THEN StripNonPrintable(SubSeq(t, 1, Len(t) - 1))
    ELSE t

\* `if (s[strlen(s) - 1] == '%') s[strlen(s) - 1] = '\0'`
StripPercent(t) ==
    IF Len(t) > 0 /\ t[Len(t)] = "%" THEN SubSeq(t, 1, Len(t) - 1) ELSE t

\* FindCvar without the comparison of the names: the loop stops at once
FindCvar_AnyName(cv, defname) == IF Len(cv) = 0 THEN 0 ELSE 1

\* the index of the first descriptor named defname, 0 when the search loop
\* ends without one (strcmp: exact, case-sensitive)
FindCvar(cv, defname) ==
    LET hits == {i \in 1..Len(cv) : cv[i].name = defname}
    IN  IF hits = {} THEN 0 ELSE CHOOSE i \in hits : \A k \in hits : i <= k

\* StoreParameter with the raw scancode of a DEFAULT_KEY setting stored as its
\* value, without the translation through scantokey
StoreParameter_NoTranslation(d, strparm, garbage) ==
    LET Parsed(intparm) ==
            IF d.type = "DEFAULT_KEY"
            THEN [d |-> [d EXCEPT !.untranslated = intparm,
                                  !.original_translated = intparm],
                  v |-> intparm]
            ELSE [d |-> d, v |-> intparm]
    IN  CASE d.type = "DEFAULT_STRING" ->
                [d |-> d, v |-> SubSeq(strparm, 2, Len(strparm) - 1)]
          [] d.type \in {"DEFAULT_INT", "DEFAULT_INT_HEX", "DEFAULT_INT_PERCENT",
                         "DEFAULT_KEY"} ->
                Parsed(ParseIntParameter(IF d.type = "DEFAULT_INT_PERCENT"
                                         THEN StripPercent(strparm) ELSE strparm,
                                         d.set, garbage))
          [] d.type \in {"DEFAULT_FLOAT", "DEFAULT_FLOAT_PERCENT"} ->
                [d |-> d, v |-> ParseFloatParameter(strparm, d.set)]

\* the switch of LoadDefaultCollection for descriptor cv[i] and text strparm:
\* the descriptor and the value of its variable afterwards
StoreParameter(d, strparm, garbage) ==
    LET Parsed(intparm) ==
            IF d.type = "DEFAULT_KEY"
            THEN LET key == IF intparm >= 0 /\ intparm < 128
                            THEN scantokey[intparm + 1] ELSE INVALIDKEY
                 IN  [d |-> [d EXCEPT !.untranslated = intparm,
                                      !.original_translated = key],
                      v |-> key]
            ELSE [d |-> d, v |-> intparm]
    IN  CASE d.type = "DEFAULT_STRING" ->
                \* strdup(strparm + 1) without its last character
                [d |-> d, v |-> SubSeq(strparm, 2, Len(strparm) - 1)]
          [] d.type \in {"DEFAULT_INT", "DEFAULT_INT_HEX", "DEFAULT_INT_PERCENT",
                         "DEFAULT_KEY"} ->
                \* DEFAULT_INT_PERCENT parses the copy without '%'
                Parsed(ParseIntParameter(IF d.type = "DEFAULT_INT_PERCENT"
                                         THEN StripPercent(strparm) ELSE strparm,
                                         d.set, garbage))
          [] d.type \in {"DEFAULT_FLOAT", "DEFAULT_FLOAT_PERCENT"} ->
                \* DEFAULT_FLOAT_PERCENT makes the copy without '%' and does
                \* not use it: strparm is parsed
                [d |-> d, v |-> ParseFloatParameter(strparm, d.set)]

\* One pass of the while loop of LoadDefaultCollection.  st is the loop's
\* state: the read position and end-of-file indicator of the stream, the
\* registry, the variables, the C_Bind calls made and, for the properties,
\* the number of passes and the records the two fscanf calls have read.
LoadIter(F, st, garbage) ==
    LET Stored(r, sp, i, sv) ==
            [st EXCEPT !.pos = r.pos, !.eof = r.pos > Len(F), !.iters = @ + 1,
                       !.reads = Append(@, <<r.defname, sp>>),
                       !.cvars[i] = sv.d,
                       !.mem[st.cvars[i].location] = sv.v]
        Found(r, sp, i) ==
            IF i = 0
            THEN [st EXCEPT !.pos = r.pos, !.eof = r.pos > Len(F), !.iters = @ + 1,
                            !.reads = Append(@, <<r.defname, sp>>)]
            ELSE Stored(r, sp, i, StoreParameter(st.cvars[i], sp, garbage))
        Stripped(r, sp) == Found(r, sp, FindCvar(st.cvars, r.defname))
        Setting(r) ==
            IF r.ret # 2
            THEN [st EXCEPT !.pos = r.pos, !.eof = r.pos > Len(F), !.iters = @ + 1]
            ELSE Stripped(r, StripNonPrintable(r.strparm))
        Bind(b) ==
            IF b.ret = 2
            THEN [st EXCEPT !.pos = b.pos, !.eof = b.pos > Len(F), !.iters = @ + 1,
                            !.binds = Append(@, <<C_StripQuotes(b.control),
                                                  C_StripQuotes(b.action)>>),
                            !.reads = Append(@, <<Chars("bind"), b.control, b.action>>)]
            ELSE Setting(ScanSetting(F, b.pos))
    IN  Bind(ScanBind(F, st.pos))

RECURSIVE LoadPasses(_, _, _, _)
\* at most n passes of `while (!feof(f)) ...`, the passes split in halves
LoadPasses(F, st, garbage, n) ==
    IF st.eof \/ n = 0 THEN st
    ELSE IF n = 1 THEN LoadIter(F, st, garbage)
    ELSE LoadPasses(F, LoadPasses(F, st, garbage, n \div 2), garbage, n - (n \div 2))

\* A pass that does not reach the end of the file reads to the end of a line
\* or reads a token to its full width, 31 characters or more: so many passes
\* end the loop
PassBound(F) == Cardinality({i \in 1..Len(F) : F[i] = NL}) + (Len(F) \div 31) + 2

\* LoadLoop as an `if`: one pass, whether or not it reaches the end of the file
LoadLoop_OnePass(F, st, garbage) == LoadPasses(F, st, garbage, 1)

\* while (!feof(f)) ...
LoadLoop(F, st, garbage) == LoadPasses(F, st, garbage, PassBound(F))

\* LoadDefaultCollection without the test of fopen's result
LoadDefaultCollection_NoOpenTest(f, cv, m, bs, garbage) ==
    LET st0 == [pos |-> 1, eof |-> FALSE, iters |-> 0, cvars |-> cv, mem |-> m,
                binds |-> bs, reads |-> <<>>]
    IN  [ret |-> TRUE, st |-> LoadLoop(f.data, st0, garbage),
         io |-> <<"fopen", "fclose">>]

\* LoadDefaultCollection: false when the file cannot be opened, else the
\* state the loop ends in; io as in SaveDefaultCollection
LoadDefaultCollection(f, cv, m, bs, garbage) ==
    LET st0 == [pos |-> 1, eof |-> FALSE, iters |-> 0, cvars |-> cv, mem |-> m,
                binds |-> bs, reads |-> <<>>]
    IN  IF ~f.exists THEN [ret |-> FALSE, st |-> st0, io |-> <<"fopen: NULL">>]
        ELSE [ret |-> TRUE, st |-> LoadLoop(f.data, st0, garbage),
              io |-> <<"fopen", "fclose">>]

(***************************************************************************)
(* Save and load of one descriptor of each type                            *)
(*                                                                         *)
(* SpecRT runs SaveDefaultCollection and LoadDefaultCollection, without    *)
(* M_CheckDefaults, on a registry of two descriptors: one of the           *)
(* descriptor kinds below and am_grid after it.  cvars[] of this version   *)
(* declares no DEFAULT_KEY and no DEFAULT_INT_HEX setting, although        *)
(* CONFIG_VARIABLE_KEY, CONFIG_VARIABLE_INT_HEX and both functions provide *)
(* for them: key_use, key_fire and opl_io_port stand for such settings.    *)
(***************************************************************************)
\* CONFIG_VARIABLE_GENERIC: { #name, &variable, type, 0, 0, set }
D(name, variable, type, set) ==
    [name |-> Chars(name), location |-> variable, type |-> type,
     untranslated |-> 0, original_translated |-> 0, set |-> set]

MaxLines == 2       \* lines of a hand-written settings file

RTDescs ==
    { D("key_use",          "key_use",                     "DEFAULT_KEY",           3),
      D("key_fire",         "key_fire",                    "DEFAULT_KEY",           0),
      D("opl_io_port",      "opl_io_port",                 "DEFAULT_INT_HEX",       0),
      D("m_threshold",      "mouse_threshold",             "DEFAULT_INT",           0),
      D("r_detail",         "graphicdetail",               "DEFAULT_INT",           6),
      D("r_maxbloodsplats", "maxbloodsplats",              "DEFAULT_INT",           7),
      D("episode",          "selectedepisode",             "DEFAULT_INT",           8),
      D("pm_walkbob",       "playerbob",                   "DEFAULT_INT_PERCENT",   0),
      D("m_acceleration",   "mouse_acceleration",          "DEFAULT_FLOAT",         0),
      D("r_gamma",          "gammalevel",                  "DEFAULT_FLOAT",        11),
      D("gp_deadzone_left", "gamepadleftdeadzone_percent", "DEFAULT_FLOAT_PERCENT", 0),
      D("playername",       "playername",                  "DEFAULT_STRING",        0) }

RTSecond == D("am_grid", "am_grid", "DEFAULT_INT", 1)

IntTypes   == {"DEFAULT_INT", "DEFAULT_INT_HEX", "DEFAULT_INT_PERCENT"}
FloatTypes == {"DEFAULT_FLOAT", "DEFAULT_FLOAT_PERCENT"}

\* the values a variable of each type is given at run time
RTValues(type) ==
    CASE type \in IntTypes ->
            {-1000000000, -3, 0, 1, 2, 3, 42, 255, 32768, INT_MAX, INT_MIN}
      [] type \in FloatTypes ->
            {-750, 0, 333, 500, 1000, 1500, 2000, 12550, 33300}
      [] type = "DEFAULT_STRING" ->
            {Chars(""), Chars("a"), Chars("C:\\DOOM games"), Chars("say \"hi\""),
             Chars(" x ")}
      [] type = "DEFAULT_KEY" ->
            \* translated key codes: mapped once, mapped twice, unmapped
            {0, INVALIDKEY, Ord("w"), Ord("5"), Ord("-"), Ord("+"), Ord(" "), 13,
             doomkeys.KEY_RSHIFT, doomkeys.KEY_UPARROW, 1000}

\* the raw scancodes the files give a key: all of the table and some outside
RawScancodes == (-2..130) \cup {200}

\* the value texts of the one-record files
RTTexts(type) ==
    CASE type = "DEFAULT_KEY" ->
            {FmtInt(r) : r \in RawScancodes} \cup {Chars("'w'"), Chars("'W'"),
             Chars("space"), Chars("'+'"), Chars("-"), Chars("'?'"), Chars("'")}
      [] type \in {"DEFAULT_INT", "DEFAULT_INT_HEX"} ->
            {Chars("42"), Chars("-3"), Chars("0x1f"), Chars("010"), Chars("high"),
             Chars("UNLIMITED"), Chars("-"), Chars("\"Inferno\""), Chars("xyz"),
             Chars("99999999999"), Chars("12abc"), Chars("'w'")}
      [] type = "DEFAULT_INT_PERCENT" ->
            {Chars("75%"), Chars("75"), Chars("150%"), Chars("-5%"), Chars("%"), Chars("x%")}
      [] type \in FloatTypes ->
            {Chars("0.5"), Chars("1.50"), Chars("2"), Chars("0.333"), Chars("off"),
             Chars("50%"), Chars("12.5%"), Chars("-0.75"), Chars("abc")}
      [] type = "DEFAULT_STRING" ->
            {Chars("\"\""), Chars("\"a\""), Chars("\"C:\\DOOM games\""), Chars("x"),
             Chars("\"say \"hi\"\""), Chars("bare words")}

RTText1(type) ==
    CASE type = "DEFAULT_KEY" -> Chars("17")
      [] type \in {"DEFAULT_INT", "DEFAULT_INT_HEX"} -> Chars("1")
      [] type = "DEFAULT_INT_PERCENT" -> Chars("75%")
      [] type \in FloatTypes -> Chars("1.5")
      [] type = "DEFAULT_STRING" -> Chars("\"a\"")

RTText2(type) ==
    CASE type = "DEFAULT_KEY" -> Chars("'5'")
      [] type \in {"DEFAULT_INT", "DEFAULT_INT_HEX"} -> Chars("3")
      [] type = "DEFAULT_INT_PERCENT" -> Chars("20%")
      [] type \in FloatTypes -> Chars("0.75")
      [] type = "DEFAULT_STRING" -> Chars("\"b c\"")

Record(name, text) == name \o <<" ">> \o text \o <<NL>>

\* the lines the files of several lines are made of
RTLines(d) ==
    { Record(d.name, RTText1(d.type)),
      Record(d.name, RTText2(d.type)),
      Chars("am_grid on\n"),
      Chars("am_grid off\r\n"),
      Chars("totallyUnknownKey 5\n"),
      Chars("bam_grid 1\n"),
      Chars("bind 'w' +forward\n"),
      Chars("lonely\n") }

RECURSIVE SeqsUpTo(_, _)
\* the sequences of at most n elements of S
SeqsUpTo(S, n) ==
    IF n = 0 THEN {<<>>}
    ELSE LET shorter == SeqsUpTo(S, n - 1)
         IN  shorter \cup {Append(q, x) : q \in shorter, x \in S}

RTFiles(d) ==
    {Concat(ls) : ls \in SeqsUpTo(RTLines(d), MaxLines)}
    \cup {Record(d.name, t) : t \in RTTexts(d.type)}

\* what an uninitialised or overflowing parm may hold
GarbageInts == {0, 7777}
\* what a read of scantokey outside the array may yield, when the registry
\* cv has a descriptor whose value is looked up in it
OobReads(cv) ==
    IF \E i \in 1..Len(cv) : cv[i].type = "DEFAULT_KEY" THEN {0, 97} ELSE {0}

NoActions == <<>>

NoHist == [ops |-> <<>>, before |-> <<>>, atsave |-> <<>>, reads |-> <<>>, ret |-> TRUE]

\* the registry and the variables when the program starts
RTStartCvars(cv) ==
    [i \in 1..Len(cv) |-> [cv[i] EXCEPT !.untranslated = 0, !.original_translated = 0]]
RTStartMem(cv) ==
    [x \in {cv[i].location : i \in 1..Len(cv)} |->
        IF \E i \in 1..Len(cv) : cv[i].location = x /\ cv[i].type = "DEFAULT_STRING"
        THEN <<>> ELSE 0]

\* the program starts with a settings file somebody wrote
InitRT ==
    /\ \E d \in RTDescs :
          /\ cvars = <<d, RTSecond>>
          /\ mem = RTStartMem(<<d, RTSecond>>)
          /\ \E data \in RTFiles(d) :
                file = [exists |-> TRUE, writable |-> TRUE, data |-> data]
    /\ binds = <<>>
    /\ actions = NoActions
    /\ console = <<>>
    /\ hist = NoHist
    /\ pc = "rt_start"

\* LoadDefaultCollection, when the program starts: the first run, and the
\* run after the one that saved
RTLoad ==
    /\ pc \in {"rt_start", "rt_saved"}
    /\ \E garbage \in GarbageInts :
          \E r \in {LoadDefaultCollection(file, RTStartCvars(cvars), RTStartMem(cvars),
                                        <<>>, garbage)} :
          LET cv0 == RTStartCvars(cvars)
              m0  == RTStartMem(cvars)
          IN  /\ cvars' = r.st.cvars
              /\ mem' = r.st.mem
              /\ binds' = r.st.binds
              /\ hist' = [hist EXCEPT !.ops = Append(@, "load"),
                                      !.before = [cvars |-> cv0, mem |-> m0,
                                                  data |-> file.data,
                                                  garbage |-> garbage],
                                      !.reads = r.st.reads,
                                      !.ret = r.ret]
    /\ pc' = IF pc = "rt_start" THEN "rt_loaded" ELSE "rt_end"
    /\ UNCHANGED <<file, actions, console>>

\* the menu or the input layer changes the first setting's variable
RTSet ==
    /\ pc = "rt_loaded"
    /\ \E v \in RTValues(cvars[1].type) :
          /\ v # mem[cvars[1].location]
          /\ mem' = [mem EXCEPT ![cvars[1].location] = v]
    /\ hist' = [hist EXCEPT !.ops = Append(@, "set"), !.before = <<>>, !.reads = <<>>]
    /\ pc' = "rt_changed"
    /\ UNCHANGED <<cvars, file, binds, actions, console>>

\* SaveDefaultCollection, at the end of the run
RTSave ==
    /\ pc \in {"rt_loaded", "rt_changed"}
    /\ \E oob \in OobReads(cvars) :
          file' = SaveDefaultCollection(file, cvars, mem, actions, oob).file
    /\ hist' = [hist EXCEPT !.ops = Append(@, "save"), !.before = <<>>, !.reads = <<>>,
                            !.atsave = [cvars |-> cvars, mem |-> mem]]
    /\ binds' = <<>>
    /\ pc' = "rt_saved"
    /\ UNCHANGED <<cvars, mem, actions, console>>

NextRT == RTLoad \/ RTSet \/ RTSave

SpecRT == InitRT /\ [][NextRT]_vars

(***************************************************************************)
(* The program: M_LoadDefaults, M_CheckDefaults, M_SaveDefaults            *)
(***************************************************************************)
\* cvars[] as compiled for Windows (WIN32 defined: no vid_videodriver)
cvarsTable ==
    <<
       D("am_grid", "am_grid", "DEFAULT_INT", 1),
       D("am_rotatemode", "am_rotatemode", "DEFAULT_INT", 1),
       D("episode", "selectedepisode", "DEFAULT_INT", 8),
       D("expansion", "selectedexpansion", "DEFAULT_INT", 9),
       D("gp_deadzone_left", "gamepadleftdeadzone_percent", "DEFAULT_FLOAT_PERCENT", 0),
       D("gp_deadzone_right", "gamepadrightdeadzone_percent", "DEFAULT_FLOAT_PERCENT", 0),
       D("gp_sensitivity", "gamepadsensitivity", "DEFAULT_INT", 0),
       D("gp_swapthumbsticks", "gamepadlefthanded", "DEFAULT_INT", 1),
       D("gp_vibrate", "gamepadvibrate", "DEFAULT_INT", 1),
       D("iwadfolder", "iwadfolder", "DEFAULT_STRING", 0),
       D("m_acceleration", "mouse_acceleration", "DEFAULT_FLOAT", 0),
       D("m_doubleclick_use", "dclick_use", "DEFAULT_INT", 1),
       D("m_novertical", "novert", "DEFAULT_INT", 1),
       D("m_sensitivity", "mousesensitivity", "DEFAULT_INT", 0),
       D("m_threshold", "mouse_threshold", "DEFAULT_INT", 0),
       D("mapfixes", "mapfixes", "DEFAULT_INT", 1),
       D("messages", "messages", "DEFAULT_INT", 1),
       D("playername", "playername", "DEFAULT_STRING", 0),
       D("pm_alwaysrun", "alwaysrun", "DEFAULT_INT", 1),
       D("pm_centerweapon", "centerweapon", "DEFAULT_INT", 1),
       D("pm_walkbob", "playerbob", "DEFAULT_INT_PERCENT", 0),
       D("runcount", "runcount", "DEFAULT_INT", 0),
       D("r_brightmaps", "brightmaps", "DEFAULT_INT", 1),
       D("r_corpses_mirrored", "corpses_mirror", "DEFAULT_INT", 1),
       D("r_corpses_moreblood", "corpses_moreblood", "DEFAULT_INT", 1),
       D("r_corpses_nudge", "corpses_nudge", "DEFAULT_INT", 1),
       D("r_corpses_slide", "corpses_slide", "DEFAULT_INT", 1),
       D("r_corpses_smearblood", "corpses_smearblood", "DEFAULT_INT", 1),
       D("r_detail", "graphicdetail", "DEFAULT_INT", 6),
       D("r_floatbob", "floatbob", "DEFAULT_INT", 1),
       D("r_gamma", "gammalevel", "DEFAULT_FLOAT", 11),
       D("r_homindicator", "homindicator", "DEFAULT_INT", 1),
       D("r_hud", "hud", "DEFAULT_INT", 1),
       D("r_liquid_bob", "animatedliquid", "DEFAULT_INT", 1),
       D("r_liquid_clipsprites", "footclip", "DEFAULT_INT", 1),
       D("r_liquid_ripple", "swirlingliquid", "DEFAULT_INT", 1),
       D("r_lowpixelheight", "pixelheight", "DEFAULT_INT", 0),
       D("r_lowpixelwidth", "pixelwidth", "DEFAULT_INT", 0),
       D("r_maxbloodsplats", "maxbloodsplats", "DEFAULT_INT", 7),
       D("r_mirrorweapons", "mirrorweapons", "DEFAULT_INT", 1),
       D("r_playersprites", "playersprites", "DEFAULT_INT", 1),
       D("r_rockettrails", "smoketrails", "DEFAULT_INT", 1),
       D("r_shadows", "shadows", "DEFAULT_INT", 1),
       D("r_translucency", "translucency", "DEFAULT_INT", 1),
       D("r_viewsize", "screensize", "DEFAULT_INT", 0),
       D("s_musicvolume", "musicvolume_percent", "DEFAULT_INT_PERCENT", 0),
       D("s_randompitch", "randompitch", "DEFAULT_INT", 1),
       D("s_sfxvolume", "sfxvolume_percent", "DEFAULT_INT_PERCENT", 0),
       D("s_timiditycfgpath", "timidity_cfg_path", "DEFAULT_STRING", 0),
       D("savegame", "selectedsavegame", "DEFAULT_INT", 0),
       D("skilllevel", "selectedskilllevel", "DEFAULT_INT", 10),
       D("spritefixes", "spritefixes", "DEFAULT_INT", 1),
       D("vid_capfps", "capfps", "DEFAULT_INT", 1),
       D("vid_display", "display", "DEFAULT_INT", 0),
       D("vid_fullscreen", "fullscreen", "DEFAULT_INT", 1),
       D("vid_scaledriver", "scaledriver", "DEFAULT_STRING", 0),
       D("vid_scalefilter", "scalefilter", "DEFAULT_STRING", 0),
       D("vid_screenheight", "screenheight", "DEFAULT_INT", 5),
       D("vid_screenwidth", "screenwidth", "DEFAULT_INT", 5),
       D("vid_vsync", "vsync", "DEFAULT_INT", 1),
       D("vid_widescreen", "widescreen", "DEFAULT_INT", 1),
       D("vid_windowposition", "windowposition", "DEFAULT_STRING", 0),
       D("vid_windowheight", "windowheight", "DEFAULT_INT", 0),
       D("vid_windowwidth", "windowwidth", "DEFAULT_INT", 0) >>

\* the limits and defaults of m_config.h and the tables of the video code
\* that M_CheckDefaults names
headers ==
    [ GAMEPADLEFTDEADZONE_MIN |-> 0,
      GAMEPADLEFTDEADZONE_MAX |-> 100000,
      GAMEPADLEFTDEADZONE_DEFAULT |-> 24000,
      GAMEPADRIGHTDEADZONE_MIN |-> 0,
      GAMEPADRIGHTDEADZONE_MAX |-> 100000,
      GAMEPADRIGHTDEADZONE_DEFAULT |-> 26500,
      GAMEPADSENSITIVITY_MIN |-> 0,
      GAMEPADSENSITIVITY_MAX |-> 128,
      GAMEPADSENSITIVITY_DEFAULT |-> 48,
      GAMEPADSENSITIVITY_OFFSET |-> 200,
      GAMEPADSENSITIVITY_FACTOR |-> 1800,
      GAMMALEVEL_MIN |-> 500,
      GAMMALEVEL_MAX |-> 2000,
      GAMMALEVEL_DEFAULT |-> 750,
      GAMMALEVELS |-> 31,
      LOW |-> 0,
      HIGH |-> 1,
      DISPLAY_MAX |-> 8,
      DISPLAY_DEFAULT |-> 1,
      MAXBLOODSPLATS_MIN |-> 0,
      MAXBLOODSPLATS_MAX |-> 32768,
      MAXBLOODSPLATS_DEFAULT |-> 32768,
      MOUSESENSITIVITY_MIN |-> 0,
      MOUSESENSITIVITY_MAX |-> 128,
      MOUSESENSITIVITY_DEFAULT |-> 32,
      MUSICVOLUME_MIN |-> 0,
      MUSICVOLUME_MAX |-> 100,
      MUSICVOLUME_DEFAULT |-> 66,
      SFXVOLUME_MIN |-> 0,
      SFXVOLUME_MAX |-> 100,
      SFXVOLUME_DEFAULT |-> 100,
      PIXELWIDTH_MIN |-> 2,
      PIXELWIDTH_MAX |-> 640,
      PIXELWIDTH_DEFAULT |-> 2,
      PIXELHEIGHT_MIN |-> 2,
      PIXELHEIGHT_MAX |-> 400,
      PIXELHEIGHT_DEFAULT |-> 2,
      PLAYERBOB_MIN |-> 0,
      PLAYERBOB_MAX |-> 100,
      PLAYERBOB_DEFAULT |-> 75,
      RUNCOUNT_MAX |-> 32768,
      SCREENSIZE_MIN |-> 0,
      SCREENSIZE_MAX |-> 8,
      SCREENSIZE_DEFAULT |-> 7,
      SCREENWIDTH |-> 640,
      SCREENHEIGHT |-> 400,
      SCREENWIDTH_DEFAULT |-> 0,
      SCREENHEIGHT_DEFAULT |-> 0,
      ORIGINALWIDTH |-> 320,
      WINDOWWIDTH_DEFAULT |-> 640,
      WINDOWHEIGHT_DEFAULT |-> 480,
      EPISODE_MIN |-> 0,
      EPISODE_MAX |-> 3,
      EPISODE_DEFAULT |-> 0,
      EXPANSION_MIN |-> 0,
      EXPANSION_MAX |-> 1,
      EXPANSION_DEFAULT |-> 0,
      SKILLLEVEL_MIN |-> 0,
      SKILLLEVEL_MAX |-> 4,
      SKILLLEVEL_DEFAULT |-> 2,
      SHRT_MAX |-> 32767 ]

\* gammalevels[GAMMALEVELS]: 0.50, 0.55, ... 2.0, in thousandths
gammalevels == [i \in 1..headers.GAMMALEVELS |-> 500 + 50 * (i - 1)]

\* the X_DEFAULT of every two-valued setting M_CheckDefaults checks
BoolDefault ==
    [ alwaysrun |-> 0, animatedliquid |-> 1, brightmaps |-> 1, capfps |-> 0,
      centerweapon |-> 1, corpses_mirror |-> 1, corpses_moreblood |-> 1,
      corpses_nudge |-> 1, corpses_slide |-> 1, corpses_smearblood |-> 1,
      dclick_use |-> 1, floatbob |-> 1, footclip |-> 1, fullscreen |-> 1,
      gamepadlefthanded |-> 0, gamepadvibrate |-> 1, am_grid |-> 0,
      homindicator |-> 0, hud |-> 1, messages |-> 0, mirrorweapons |-> 0,
      novert |-> 1, playersprites |-> 1, randompitch |-> 1, am_rotatemode |-> 1,
      shadows |-> 1, smoketrails |-> 1, spritefixes |-> 1, swirlingliquid |-> 1,
      translucency |-> 1, vsync |-> 1, widescreen |-> 0 ]

SCALEDRIVER_DEFAULT == Chars("")
SCALEFILTER_DEFAULT == Chars("nearest")

\* the variables as their definitions initialise them, before M_LoadDefaults
CompiledDefaults ==
    BoolDefault @@
    [ mapfixes |-> 1,
      selectedepisode |-> headers.EPISODE_DEFAULT, selectedexpansion |-> headers.EXPANSION_DEFAULT,
      selectedsavegame |-> 0, selectedskilllevel |-> headers.SKILLLEVEL_DEFAULT,
      gamepadleftdeadzone_percent |-> headers.GAMEPADLEFTDEADZONE_DEFAULT,
      gamepadrightdeadzone_percent |-> headers.GAMEPADRIGHTDEADZONE_DEFAULT,
      gamepadsensitivity |-> headers.GAMEPADSENSITIVITY_DEFAULT,
      iwadfolder |-> Chars("C:\\"), mouse_acceleration |-> 2000,
      mousesensitivity |-> headers.MOUSESENSITIVITY_DEFAULT, mouse_threshold |-> 10,
      playername |-> Chars("you"), playerbob |-> headers.PLAYERBOB_DEFAULT, runcount |-> 0,
      graphicdetail |-> headers.HIGH, gammalevel |-> headers.GAMMALEVEL_DEFAULT,
      pixelheight |-> headers.PIXELHEIGHT_DEFAULT, pixelwidth |-> headers.PIXELWIDTH_DEFAULT,
      maxbloodsplats |-> headers.MAXBLOODSPLATS_DEFAULT, screensize |-> headers.SCREENSIZE_DEFAULT,
      musicvolume_percent |-> headers.MUSICVOLUME_DEFAULT,
      sfxvolume_percent |-> headers.SFXVOLUME_DEFAULT,
      timidity_cfg_path |-> Chars(""), display |-> headers.DISPLAY_DEFAULT,
      scaledriver |-> SCALEDRIVER_DEFAULT, scalefilter |-> SCALEFILTER_DEFAULT,
      screenheight |-> headers.SCREENHEIGHT_DEFAULT, screenwidth |-> headers.SCREENWIDTH_DEFAULT,
      windowposition |-> Chars(""), windowheight |-> headers.WINDOWHEIGHT_DEFAULT,
      windowwidth |-> headers.WINDOWWIDTH_DEFAULT,
      \* globals that no descriptor points to
      gamepadleftdeadzone |-> 0, gamepadrightdeadzone |-> 0,
      gamepadsensitivityf |-> 0, gammaindex |-> 0, musicVolume |-> 0,
      sfxVolume |-> 0, returntowidescreen |-> 0 ]

MIN(a, b) == IF a < b THEN a ELSE b
MAX(a, b) == IF a > b THEN a ELSE b
BETWEEN(a, b, c) == MAX(a, MIN(b, c))

\* (int)(percent * (float)SHRT_MAX / 100.0f), percent in thousandths
DeadZone(p) ==
    LET total == (p \div 1000) * headers.SHRT_MAX
    IN  (total \div 100) + ((1000 * (total % 100) + (p % 1000) * headers.SHRT_MAX) \div 100000)

\* lines 757-767: the index gammaindex ends at (0-based, into gammalevels)
GammaIndex(gammalevel) ==
    LET hits  == {i \in 0..(headers.GAMMALEVELS - 1) : gammalevels[i + 1] = gammalevel}
        \* the first loop: gammaindex is one past the match when it breaks,
        \* GAMMALEVELS when it runs out
        after == IF hits = {} THEN headers.GAMMALEVELS
                 ELSE 1 + (CHOOSE i \in hits : \A k \in hits : i <= k)
        dflt  == CHOOSE i \in 0..(headers.GAMMALEVELS - 1) :
                     gammalevels[i + 1] = headers.GAMMALEVEL_DEFAULT
    IN  IF after = headers.GAMMALEVELS THEN dflt ELSE after - 1

RECURSIVE Divisor(_, _)
\* `while (n % x) --x;`
Divisor(n, x) == IF n % x # 0 THEN Divisor(n, x - 1) ELSE x

\* gamepadsensitivityf, in thousandths
GamepadSensitivityF(gs) ==
    IF gs = 0 THEN 0
    ELSE headers.GAMEPADSENSITIVITY_OFFSET
         + (gs * headers.GAMEPADSENSITIVITY_FACTOR) \div headers.GAMEPADSENSITIVITY_MAX

\* C's / on ints truncates toward zero
CDiv(a, b) == IF a >= 0 THEN a \div b ELSE -((-a) \div b)

\* windowheight * 4 / 3 with 32-bit ints: the product wraps around
Times4Div3(h) ==
    LET r == h % 1073741824
    IN  CDiv(IF r >= 536870912 THEN 4 * (r - 1073741824) ELSE 4 * r, 3)

\* PercentToVolume without the 50 that rounds to the nearest volume
PercentToVolume_Truncating(min, percent, max) ==
    (BETWEEN(min, percent, max) * 15) \div 100

\* (BETWEEN(min, percent, max) * 15 + 50) / 100: the mixer volume of a percentage
PercentToVolume(min, percent, max) == (BETWEEN(min, percent, max) * 15 + 50) \div 100

\* SaveDefaultCollection between the two assignments of M_SaveDefaults
M_SaveDefaults(f, cv, m, acts, oob) ==
    LET m1 == IF m["returntowidescreen"] # 0 THEN [m EXCEPT !["widescreen"] = 1] ELSE m
        f1 == SaveDefaultCollection(f, cv, m1, acts, oob)
        m2 == IF m1["returntowidescreen"] # 0 THEN [m1 EXCEPT !["widescreen"] = 0] ELSE m1
    IN  [file |-> f1.file, mem |-> m2, io |-> f1.io]

\* the two-valued variables M_CheckDefaults tests
CheckedBools == DOMAIN BoolDefault

\* M_CheckDefaults up to its call of M_SaveDefaults: the variables afterwards.
\* Each statement reads variables no earlier statement of the function has
\* written, except those on widescreen, hud and the window size, which the
\* definitions of the LET follow in the order of the code.
CheckDefaults(m) ==
    LET Bool(x) == IF m[x] # 0 /\ m[x] # 1 THEN BoolDefault[x] ELSE m[x]
        gs == BETWEEN(headers.GAMEPADSENSITIVITY_MIN, m["gamepadsensitivity"],
                      headers.GAMEPADSENSITIVITY_MAX)
        gl == BETWEEN(headers.GAMMALEVEL_MIN, m["gammalevel"], headers.GAMMALEVEL_MAX)
        pw == BETWEEN(headers.PIXELWIDTH_MIN, m["pixelwidth"], headers.PIXELWIDTH_MAX)
        ph == BETWEEN(headers.PIXELHEIGHT_MIN, m["pixelheight"], headers.PIXELHEIGHT_MAX)
        screensize == BETWEEN(headers.SCREENSIZE_MIN, m["screensize"], headers.SCREENSIZE_MAX)
        badsize == /\ m["screenwidth"] # 0 /\ m["screenheight"] # 0
                   /\ (m["screenwidth"] < headers.SCREENWIDTH
                       \/ m["screenheight"] < (headers.SCREENHEIGHT * 3) \div 4)
        \* `if (widescreen || screensize == SCREENSIZE_MAX)`, after both checks
        towide == Bool("widescreen") # 0 \/ screensize = headers.SCREENSIZE_MAX
        wh == IF m["windowwidth"] < headers.ORIGINALWIDTH
                 \/ m["windowheight"] < (headers.ORIGINALWIDTH * 3) \div 4
              THEN headers.WINDOWHEIGHT_DEFAULT ELSE m["windowheight"]
    IN  [x \in DOMAIN m |->
          CASE x = "widescreen" -> IF towide THEN 0 ELSE Bool(x)
            [] x = "hud" -> IF towide THEN Bool(x) ELSE 1
            [] x = "returntowidescreen" -> IF towide THEN 1 ELSE m[x]
            [] x \in CheckedBools \ {"widescreen", "hud"} -> Bool(x)
            [] x = "gamepadleftdeadzone" ->
                  DeadZone(BETWEEN(headers.GAMEPADLEFTDEADZONE_MIN,
                      m["gamepadleftdeadzone_percent"], headers.GAMEPADLEFTDEADZONE_MAX))
            [] x = "gamepadrightdeadzone" ->
                  DeadZone(BETWEEN(headers.GAMEPADRIGHTDEADZONE_MIN,
                      m["gamepadrightdeadzone_percent"], headers.GAMEPADRIGHTDEADZONE_MAX))
            [] x = "gamepadsensitivity" -> gs
            [] x = "gamepadsensitivityf" -> GamepadSensitivityF(gs)
            [] x = "gammalevel" -> gl
            [] x = "gammaindex" -> GammaIndex(gl)
            [] x = "graphicdetail" ->
                  IF m[x] # headers.LOW /\ m[x] # headers.HIGH THEN headers.HIGH ELSE m[x]
            [] x = "display" ->
                  IF m[x] < 1 \/ m[x] > headers.DISPLAY_MAX THEN headers.DISPLAY_DEFAULT ELSE m[x]
            [] x = "maxbloodsplats" ->
                  BETWEEN(headers.MAXBLOODSPLATS_MIN, m[x], headers.MAXBLOODSPLATS_MAX)
            [] x = "mousesensitivity" ->
                  BETWEEN(headers.MOUSESENSITIVITY_MIN, m[x], headers.MOUSESENSITIVITY_MAX)
            [] x = "musicVolume" ->
                  PercentToVolume(headers.MUSICVOLUME_MIN, m["musicvolume_percent"],
                                  headers.MUSICVOLUME_MAX)
            [] x = "pixelwidth" -> Divisor(headers.SCREENWIDTH, pw)
            [] x = "pixelheight" -> Divisor(headers.SCREENHEIGHT, ph)
            [] x = "playerbob" -> BETWEEN(headers.PLAYERBOB_MIN, m[x], headers.PLAYERBOB_MAX)
            [] x = "runcount" -> BETWEEN(0, m[x], headers.RUNCOUNT_MAX)
            [] x = "scaledriver" ->
                  IF \A t \in {"opengl", "direct3d", "software", "opengles",
                               "opengles2"} : ~strcaseeq(m[x], Chars(t))
                  THEN SCALEDRIVER_DEFAULT ELSE m[x]
            [] x = "scalefilter" ->
                  IF \A t \in {"nearest", "linear"} : ~strcaseeq(m[x], Chars(t))
                  THEN SCALEFILTER_DEFAULT ELSE m[x]
            [] x = "screensize" -> screensize
            [] x = "screenwidth" -> IF badsize THEN headers.SCREENWIDTH_DEFAULT ELSE m[x]
            [] x = "screenheight" -> IF badsize THEN headers.SCREENHEIGHT_DEFAULT ELSE m[x]
            [] x = "selectedepisode" ->
                  BETWEEN(headers.EPISODE_MIN, m[x],
                      headers.EPISODE_MAX - (IF m["gamemode"] = "registered" THEN 1 ELSE 0))
            [] x = "selectedexpansion" ->
                  BETWEEN(headers.EXPANSION_MIN, m[x], headers.EXPANSION_MAX)
            [] x = "selectedsavegame" -> BETWEEN(0, m[x], 5)
            [] x = "selectedskilllevel" ->
                  BETWEEN(headers.SKILLLEVEL_MIN, m[x], headers.SKILLLEVEL_MAX)
            [] x = "sfxVolume" ->
                  PercentToVolume(headers.SFXVOLUME_MIN, m["sfxvolume_percent"],
                                  headers.SFXVOLUME_MAX)
            [] x = "windowheight" -> wh
            [] x = "windowwidth" -> Times4Div3(wh)
            [] OTHER -> m[x]]

\* M_CheckDefaults
M_CheckDefaults(f, cv, m, acts, oob) ==
    M_SaveDefaults(f, cv, CheckDefaults(m), acts, oob)

(***************************************************************************)
(* The program: start, M_LoadDefaults, changes while it runs,              *)
(* M_SaveDefaults, and the next start                                      *)
(***************************************************************************)
MaxRuns    == 2     \* times the program is started
MaxChanges == 1     \* changes of a setting made in one run

\* actions[] of the input layer, up to the row with the empty name: a device
\* member is a pointer, null for an action the device cannot be bound to
Ptr(v) == [ptr |-> TRUE, val |-> v]
Null   == [ptr |-> FALSE, val |-> 0]

actionsTable ==
    << [action |-> Chars("+forward"), keyboard |-> Ptr(119), mouse |-> Null,
        gamepad |-> Null],
       [action |-> Chars("+fire"), keyboard |-> Ptr(doomkeys.KEY_RCTRL), mouse |-> Ptr(0),
        gamepad |-> Ptr(4096)],
       [action |-> Chars("+zoomin"), keyboard |-> Ptr(61), mouse |-> Null,
        gamepad |-> Ptr(1)],
       [action |-> Chars("+use"), keyboard |-> Ptr(0), mouse |-> Null,
        gamepad |-> Null] >>

\* lines of the settings files the program is started with
BootLines ==
    {Chars(l) : l \in {
        "gp_sensitivity 200\n", "gp_sensitivity -1\n", "gp_sensitivity 64\n",
        "m_sensitivity 129\n", "m_sensitivity -32\n",
        "r_maxbloodsplats 40000\n", "r_maxbloodsplats -1\n",
        "r_maxbloodsplats unlimited\n",
        "pm_walkbob 101%\n", "pm_walkbob -75%\n", "pm_walkbob 50%\n",
        "r_viewsize 9\n", "r_viewsize -1\n", "r_viewsize 8\n", "r_viewsize 5\n",
        "runcount 32769\n", "runcount -1\n", "runcount 12\n",
        "episode 4\n", "episode 3\n", "episode -1\n", "episode \"Inferno\"\n",
        "expansion 2\n", "expansion -1\n",
        "savegame 6\n", "savegame -1\n", "savegame 3\n",
        "skilllevel 5\n", "skilllevel -1\n", "skilllevel \"Nightmare!\"\n",
        "s_musicvolume 150%\n", "s_musicvolume -10%\n", "s_musicvolume 50%\n",
        "s_musicvolume 0%\n", "s_musicvolume 100%\n", "s_musicvolume 7%\n",
        "s_sfxvolume 101%\n", "s_sfxvolume -1%\n", "s_sfxvolume 50%\n",
        "s_sfxvolume 3%\n",
        "am_grid on\n", "am_grid 5\n", "mapfixes 5\n", "r_hud off\n",
        "vid_widescreen on\n", "vid_widescreen 2\n",
        "r_gamma 2.0\n", "r_gamma 0.9\n", "r_gamma off\n", "r_gamma 0.77\n",
        "r_detail low\n", "r_detail 3\n",
        "m_acceleration 1.50\n", "gp_deadzone_left 12.5%\n",
        "playername \"doomguy\"\n", "vid_scaledriver \"OpenGL\"\n",
        "vid_scalefilter \"cubic\"\n",
        "vid_windowheight 100\n", "vid_windowwidth 1000\n",
        "vid_screenwidth 320\n", "vid_screenheight 1080\n",
        "r_lowpixelwidth 7\n", "r_lowpixelheight 3\n", "vid_display 0\n",
        "totallyUnknownKey 5\n", "bind 'w' +forward\n", "lonely\n", "\n" }}

BootFiles ==
    {l : l \in BootLines}
    \cup {Chars(t) : t \in {
            "", 
            "s_musicvolume 50%\ns_sfxvolume 150%\nepisode 4\n",
            "skilllevel 7\nr_viewsize 8\nvid_widescreen on\nbind mouse1 +fire\n",
            "vid_windowwidth 1000\nvid_windowheight 600\nvid_screenwidth 1920\nvid_screenheight 100\n",
            "AM_GRID on\r\nam_grid on\r\ngp_sensitivity 300\r\n" }}

\* the variables when the program starts
StartMem(gamemode) == CompiledDefaults @@ [gamemode |-> gamemode]

StartHist ==
    [runs |-> 0, changes |-> 0, last |-> "none", ret |-> FALSE,
     input |-> [exists |-> FALSE, writable |-> FALSE, data |-> <<>>],
     loaded |-> <<>>, io |-> <<>>]

\* the files of the runs in which the game is the registered one
RegisteredFiles ==
    {Chars(t) : t \in {"episode 4\n", "episode 3\n", "episode 1\n", "episode -1\n",
                       "s_musicvolume 50%\ns_sfxvolume 150%\nepisode 4\n"}}

\* the files of the runs in which the settings file cannot be written
ReadOnlyFiles ==
    {Chars(t) : t \in {"s_musicvolume 150%\n", "r_viewsize 9\n", "am_grid on\n"}}

\* the program starts: the variables hold their initial values; the settings
\* file is missing or is one somebody wrote
Init ==
    /\ cvars = cvarsTable
    /\ \E start \in
            {<<"retail", TRUE, TRUE, data>> : data \in BootFiles}
            \cup {<<"registered", TRUE, TRUE, data>> : data \in RegisteredFiles}
            \cup {<<"retail", TRUE, FALSE, data>> : data \in ReadOnlyFiles}
            \cup {<<gamemode, FALSE, writable, <<>> >> :
                    gamemode \in {"registered", "retail"}, writable \in BOOLEAN} :
          /\ mem = StartMem(start[1])
          /\ file = [exists |-> start[2], writable |-> start[3], data |-> start[4]]
    /\ binds = <<>>
    /\ actions = actionsTable
    /\ console = <<>>
    /\ hist = StartHist
    /\ pc = "boot"

\* the text of C_Output's message
LoadMessage(ret) ==
    IF ret THEN Chars("Loaded CVARs from DOOMRETRO.CFG.")
    ELSE Chars("DOOMRETRO.CFG not found. Using defaults for all CVARs and creating DOOMRETRO.CFG.")

\* M_LoadDefaults: LoadDefaultCollection, the message, M_CheckDefaults
M_LoadDefaults ==
    /\ pc = "boot"
    /\ \E garbage \in GarbageInts, oob \in OobReads(cvars) :
          \E r \in {LoadDefaultCollection(file, cvars, mem, binds, garbage)} :
          \E c \in {M_CheckDefaults(file, r.st.cvars, r.st.mem, actions, oob)} :
              /\ cvars' = r.st.cvars
              /\ binds' = r.st.binds
              /\ console' = Append(console, LoadMessage(r.ret))
              /\ mem' = c.mem
              /\ file' = c.file
              /\ hist' = [hist EXCEPT !.runs = @ + 1, !.last = "load", !.ret = r.ret,
                                      !.input = file, !.loaded = r.st.mem,
                                      !.io = <<r.io, c.io>>]
    /\ pc' = "running"
    /\ UNCHANGED actions

\* what the menu and the console set while the program runs
Changes ==
    { <<"musicvolume_percent", 30>>, <<"widescreen", 1>>,
      <<"mouse_acceleration", 2000>>, <<"playername", Chars("doomguy")>> }

\* the menu or the console gives a setting's variable another value
ChangeSetting ==
    /\ pc = "running"
    /\ hist.changes < MaxChanges
    /\ \E ch \in Changes :
          /\ mem[ch[1]] # ch[2]
          /\ mem' = [mem EXCEPT ![ch[1]] = ch[2]]
    /\ hist' = [hist EXCEPT !.changes = @ + 1, !.last = "change"]
    /\ UNCHANGED <<cvars, file, binds, actions, console, pc>>

\* M_SaveDefaults, called after a change and when the program quits
SaveDefaults ==
    /\ pc = "running"
    /\ \E oob \in OobReads(cvars) :
          \E s \in {M_SaveDefaults(file, cvars, mem, actions, oob)} :
              /\ file' = s.file
              /\ mem' = s.mem
              /\ hist' = [hist EXCEPT !.last = "save", !.io = <<s.io>>]
    /\ UNCHANGED <<cvars, binds, actions, console, pc>>

\* the program ends and is started again: its variables are initialised anew
Restart ==
    /\ pc = "running"
    /\ hist.last = "save"
    /\ hist.runs < MaxRuns
    /\ cvars' = cvarsTable
    /\ mem' = StartMem(mem["gamemode"])
    /\ binds' = <<>>
    /\ console' = <<>>
    /\ hist' = [hist EXCEPT !.changes = 0, !.last = "none"]
    /\ pc' = "boot"
    /\ UNCHANGED <<file, actions>>

Next == M_LoadDefaults \/ ChangeSetting \/ SaveDefaults \/ Restart

Spec == Init /\ [][Next]_vars

(***************************************************************************)
(* Properties of saving and loading one setting (SpecRT)                   *)
(***************************************************************************)
\* the first descriptor's variable, and what it held when the file was saved
RTLocation == cvars[1].location
RTSavedValue == hist.atsave.mem[RTLocation]

\* the values the text of a record carries in full: an int whose decimal text
\* is at most the ten characters "%10i" reads, a float with the two decimals
\* "%.2f" prints, a percentage with the one decimal "%.1f" prints
C1_Carried(type, v) ==
    CASE type \in {"DEFAULT_INT", "DEFAULT_INT_PERCENT"} -> v > -1000000000
      [] type = "DEFAULT_FLOAT"                        -> v % 10 = 0
      [] type = "DEFAULT_FLOAT_PERCENT"                -> v % 100 = 0
      [] OTHER                                         -> TRUE

\* C1, as amended: a setting of type Int, IntHex, IntPercent, Float,
\* FloatPercent or String whose value the text of its record carries in full
\* has, after SaveDefaultCollection and LoadDefaultCollection of the written
\* file in the next run, the value it had when the file was saved.
C1_RoundTripCarried ==
    (/\ pc = "rt_end"
     /\ cvars[1].type # "DEFAULT_KEY"
     /\ C1_Carried(cvars[1].type, RTSavedValue))
    => mem[RTLocation] = RTSavedValue

\* C1, as stated: the same for every value of the type
C1_RoundTripEveryValue ==
    (pc = "rt_end" /\ cvars[1].type # "DEFAULT_KEY")
    => mem[RTLocation] = RTSavedValue

\* a float with two decimals set at run time, saved and loaded again
C1_Witness ==
    /\ pc = "rt_end"
    /\ cvars[1].type = "DEFAULT_FLOAT"
    /\ hist.ops = <<"load", "set", "save", "load">>
    /\ RTSavedValue = 12550
    /\ mem[RTLocation] = 12550

\* C2: a Key setting whose raw scancode r was read from the file and whose
\* value has not been changed since has, after Save and Load, untranslated = r.
C2_KeyRoundTrip ==
    (/\ pc = "rt_end"
     /\ cvars[1].type = "DEFAULT_KEY"
     /\ hist.ops = <<"load", "save", "load">>
     /\ hist.atsave.cvars[1].untranslated \in RawScancodes \ {0})
    => cvars[1].untranslated = hist.atsave.cvars[1].untranslated

(***************************************************************************)
(* Properties of the program (Spec)                                        *)
(***************************************************************************)
\* the lines of the text F, each without the newline that ends it
FileLines(F) ==
    LET nl == SelectSeq([i \in 1..Len(F) |-> i], LAMBDA i : F[i] = NL)
    IN  [k \in 1..Len(nl) |-> SubSeq(F, IF k = 1 THEN 1 ELSE nl[k - 1] + 1, nl[k] - 1)]

\* text t starts with text u
StartsWith(t, u) == Len(t) >= Len(u) /\ SubSeq(t, 1, Len(u)) = u

\* the file holds what the last M_SaveDefaults wrote from the variables
Saved ==
    /\ pc = "running"
    /\ hist.last \in {"load", "save"}
    /\ file.writable

\* the value SaveDefaultCollection saw in the variable of cvars[i]:
\* M_SaveDefaults sets widescreen around the call
ValueSaved(i) ==
    IF cvars[i].location = "widescreen" /\ mem["returntowidescreen"] # 0
    THEN 1 ELSE mem[cvars[i].location]

\* the text after the name and the space in line i of the lines ls
ValueTextIn(ls, i) == SubSeq(ls[i], Len(cvars[i].name) + 2, Len(ls[i]))

\* the same in the file
ValueText(i) == ValueTextIn(FileLines(file.data), i)

\* the rows (text, v, set) of the alias table for the value of cvars[i]
RowsFor(i) ==
    {j \in AliasRows :
        /\ aliases[j].set = cvars[i].set
        /\ ValueSaved(i) = IF cvars[i].type \in FloatTypes
                           THEN 1000 * aliases[j].value ELSE aliases[j].value}

\* the value the parser of the type of cvars[i] gives the text t
ParsedAs(i, t, garbage) ==
    IF cvars[i].type \in FloatTypes THEN ParseFloatParameter(t, cvars[i].set)
    ELSE ParseIntParameter(t, cvars[i].set, garbage)

\* C3: for every registered setting whose value v has a row (text, v, s) in
\* the alias table for the setting's set s, the record Save writes holds the
\* text of such a row, not the number, and parsing that text in set s gives v.
C3_AliasPrecedence ==
    Saved =>
        LET ls == FileLines(file.data)
        IN  \A i \in 1..Len(cvars) :
                RowsFor(i) # {} =>
                    /\ \E j \in RowsFor(i) : ValueTextIn(ls, i) = aliases[j].text
                    /\ cvars[i].type \in IntTypes
                          => ValueTextIn(ls, i) # FmtInt(ValueSaved(i))
                    /\ \A garbage \in GarbageInts :
                          ParsedAs(i, ValueTextIn(ls, i), garbage) = ValueSaved(i)

\* the skill level 4 is saved as "Nightmare!" and the blood splats as unlimited
C3_Witness ==
    /\ Saved
    /\ mem["selectedskilllevel"] = 4
    /\ mem["maxbloodsplats"] = 32768
    /\ \E i \in 1..Len(cvars) :
          cvars[i].location = "selectedskilllevel"
          /\ ValueText(i) = Chars("\"Nightmare!\"")
    /\ \E i \in 1..Len(cvars) :
          cvars[i].location = "maxbloodsplats" /\ ValueText(i) = Chars("unlimited")

\* the lines of the file that are bind records, and the action each names
BindLines(ls) == SelectSeq(ls, LAMBDA l : StartsWith(l, Chars("bind ")))
ActionIndex(l) ==
    LET hits == {k \in 1..Len(actions) :
                    Len(l) > Len(actions[k].action)
                    /\ SubSeq(l, Len(l) - Len(actions[k].action), Len(l))
                        = <<" ">> \o actions[k].action}
    IN  IF hits = {} THEN 0 ELSE CHOOSE k \in hits : TRUE

\* C9: a file written by Save holds one `<name> <value>` record per registered
\* setting, in the order of the registry, then an empty line, then the bind
\* records in the order of the action list; no bind record comes before a
\* setting record.
C9_RecordOrder ==
    Saved =>
        LET ls == FileLines(file.data)
            n  == Len(cvars)
        IN  /\ Len(ls) >= n + 1
            /\ \A i \in 1..n : StartsWith(ls[i], cvars[i].name \o <<" ">>)
                               /\ ~StartsWith(ls[i], Chars("bind "))
            /\ ls[n + 1] = <<>>
            /\ \A k \in (n + 2)..Len(ls) :
                  /\ StartsWith(ls[k], Chars("bind "))
                  /\ ActionIndex(ls[k]) # 0
                  /\ k > n + 2 => ActionIndex(ls[k - 1]) <= ActionIndex(ls[k])

\* a written file with the 64 setting records, the empty line and bind records
\* of more than one action
C9_Witness ==
    /\ Saved
    /\ hist.last = "save"
    /\ LET ls == FileLines(file.data)
       IN  /\ Len(ls) > Len(cvars) + 3
           /\ ActionIndex(ls[Len(cvars) + 2]) < ActionIndex(ls[Len(ls)])

\* M_LoadDefaults has just returned
Loaded == pc = "running" /\ hist.last = "load"

\* the integer settings with a range, the variable and the range of each;
\* the registered game has one episode less
Ranged ==
    { [name |-> "gp_sensitivity", var |-> "gamepadsensitivity",
       min |-> headers.GAMEPADSENSITIVITY_MIN, max |-> headers.GAMEPADSENSITIVITY_MAX],
      [name |-> "m_sensitivity", var |-> "mousesensitivity",
       min |-> headers.MOUSESENSITIVITY_MIN, max |-> headers.MOUSESENSITIVITY_MAX],
      [name |-> "r_maxbloodsplats", var |-> "maxbloodsplats",
       min |-> headers.MAXBLOODSPLATS_MIN, max |-> headers.MAXBLOODSPLATS_MAX],
      [name |-> "pm_walkbob", var |-> "playerbob",
       min |-> headers.PLAYERBOB_MIN, max |-> headers.PLAYERBOB_MAX],
      [name |-> "r_viewsize", var |-> "screensize",
       min |-> headers.SCREENSIZE_MIN, max |-> headers.SCREENSIZE_MAX],
      [name |-> "runcount", var |-> "runcount", min |-> 0, max |-> headers.RUNCOUNT_MAX],
      [name |-> "episode", var |-> "selectedepisode",
       min |-> headers.EPISODE_MIN,
       max |-> headers.EPISODE_MAX - (IF mem["gamemode"] = "registered" THEN 1 ELSE 0)],
      [name |-> "expansion", var |-> "selectedexpansion",
       min |-> headers.EXPANSION_MIN, max |-> headers.EXPANSION_MAX],
      [name |-> "savegame", var |-> "selectedsavegame", min |-> 0, max |-> 5],
      [name |-> "skilllevel", var |-> "selectedskilllevel",
       min |-> headers.SKILLLEVEL_MIN, max |-> headers.SKILLLEVEL_MAX],
      [name |-> "s_musicvolume", var |-> "musicvolume_percent",
       min |-> headers.MUSICVOLUME_MIN, max |-> headers.MUSICVOLUME_MAX],
      [name |-> "s_sfxvolume", var |-> "sfxvolume_percent",
       min |-> headers.SFXVOLUME_MIN, max |-> headers.SFXVOLUME_MAX] }

\* the bound of lo..hi nearest to v
Nearest(lo, v, hi) == IF v < lo THEN lo ELSE IF v > hi THEN hi ELSE v

\* the index of the descriptor named name
IndexOf(name) == CHOOSE i \in 1..Len(cvars) : cvars[i].name = Chars(name)

\* C4: when the value loaded from the file for an integer setting with a
\* range lies outside it, then after M_LoadDefaults the setting holds the
\* nearest bound, and the record the resave wrote for it carries that bound.
C4_Clamping ==
    (Loaded /\ hist.ret) =>
        \A r \in Ranged :
            hist.loaded[r.var] \notin r.min..r.max =>
                /\ mem[r.var] = Nearest(r.min, hist.loaded[r.var], r.max)
                /\ file.writable =>
                      \A garbage \in GarbageInts :
                          StoreParameter(cvars[IndexOf(r.name)],
                                         ValueText(IndexOf(r.name)), garbage).v
                            = Nearest(r.min, hist.loaded[r.var], r.max)

\* C6: when the settings file does not exist, LoadDefaultCollection returns
\* false, every registered setting holds its initial value after
\* M_LoadDefaults, and the save that follows creates the file with one record
\* for each registered setting.
C6_MissingFile ==
    (Loaded /\ ~hist.input.exists) =>
        /\ hist.ret = FALSE
        /\ \A i \in 1..Len(cvars) :
              mem[cvars[i].location] = CompiledDefaults[cvars[i].location]
        /\ file.writable =>
              /\ file.exists
              /\ LET ls == FileLines(file.data)
                 IN  /\ Len(ls) > Len(cvars)
                     /\ \A i \in 1..Len(cvars) :
                           StartsWith(ls[i], cvars[i].name \o <<" ">>)
                     /\ ls[Len(cvars) + 1] = <<>>

\* the first run of the program without a settings file has created it
C6_Witness ==
    /\ Loaded
    /\ hist.runs = 1
    /\ ~hist.input.exists
    /\ ~hist.ret
    /\ file.exists
    /\ mem["playername"] = Chars("you")
    /\ StartsWith(file.data, Chars("am_grid off\n"))

\* (clamp(p, min, max) * 15 + 50) / 100 in integer arithmetic
Rescaled(p, min, max) == (Nearest(min, p, max) * 15 + 50) \div 100

\* C8: after M_LoadDefaults the volumes musicVolume and sfxVolume are
\* (clamp(p, MIN, MAX) * 15 + 50) / 100 of the percentages p loaded for
\* s_musicvolume and s_sfxvolume, and lie in 0..15.
C8_PercentRescale ==
    Loaded =>
        /\ mem["musicVolume"] = Rescaled(hist.loaded["musicvolume_percent"],
                                         headers.MUSICVOLUME_MIN, headers.MUSICVOLUME_MAX)
        /\ mem["sfxVolume"] = Rescaled(hist.loaded["sfxvolume_percent"],
                                       headers.SFXVOLUME_MIN, headers.SFXVOLUME_MAX)
        /\ mem["musicVolume"] \in 0..15
        /\ mem["sfxVolume"] \in 0..15

\* 50% was loaded for the music and gives 8; 150% for the effects gives 15
C8_Witness ==
    /\ Loaded
    /\ hist.input.data = Chars("s_musicvolume 50%\ns_sfxvolume 150%\nepisode 4\n")
    /\ hist.loaded["musicvolume_percent"] = 50
    /\ hist.loaded["sfxvolume_percent"] = 150
    /\ mem["musicVolume"] = 8
    /\ mem["sfxVolume"] = 15

(***************************************************************************)
(* More properties of saving and loading one setting (SpecRT)              *)
(***************************************************************************)
\* the first run's settings file with the text data, and its load with the
\* registry and the variables the first run started with
FirstLoad(data, garbage) ==
    LoadDefaultCollection([file EXCEPT !.data = data], hist.before.cvars,
                          hist.before.mem, <<>>, garbage).st

\* records whose name is that of no registered setting
UnknownRecords == {Chars("totallyUnknownKey 5\n"), Chars("bam_grid 1\n")}

\* C5: a line `<name> <value>` whose name is not the name of a registered
\* setting changes no value, and the lines after it are processed: the load
\* ends as the load of the file without that line does.
C5_UnknownKey ==
    pc = "rt_loaded" =>
        \A u \in UnknownRecords, l \in RTLines(cvars[1]) \cup {<<>>} :
            (hist.before.data = u \o l \/ hist.before.data = l \o u) =>
                /\ mem = FirstLoad(l, hist.before.garbage).mem
                /\ cvars = FirstLoad(l, hist.before.garbage).cvars

\* the number of characters after the decimal point of t, 0 without a point
Decimals(t) ==
    LET dots == {i \in 1..Len(t) : t[i] = "."}
    IN  IF dots = {} THEN 0 ELSE Len(t) - (CHOOSE i \in dots : TRUE)

\* a float setting without aliases holds a value of at most two decimals and
\* the file has been written
C7_Case ==
    /\ pc = "rt_saved"
    /\ cvars[1].type = "DEFAULT_FLOAT"
    /\ cvars[1].set = 0
    /\ RTSavedValue % 10 = 0

\* C7, as amended: at 2-decimal precision striptrailingzero drops a zero
\* second decimal and keeps the first decimal, so that 1.50 is rendered as
\* "1.5" and 2.00 as "2.0"; the text denotes the value.
C7_StripsSecondDecimal ==
    C7_Case =>
        /\ Decimals(ValueText(1)) = IF RTSavedValue % 100 = 0 THEN 1 ELSE 2
        /\ Atof(ValueText(1)) = RTSavedValue
        /\ RTSavedValue = 1500 => ValueText(1) = Chars("1.5")
        /\ RTSavedValue = 2000 => ValueText(1) = Chars("2.0")

\* C7, as stated: an integral value is rendered with no fractional digits,
\* 2.00 as "2"
C7_IntegralWithoutFraction ==
    C7_Case =>
        /\ Decimals(ValueText(1)) = IF RTSavedValue % 1000 = 0 THEN 0
                                    ELSE IF RTSavedValue % 100 = 0 THEN 1 ELSE 2
        /\ RTSavedValue = 1500 => ValueText(1) = Chars("1.5")
        /\ RTSavedValue = 2000 => ValueText(1) = Chars("2")

\* 2.00 has been saved, as "2.0"
C7_Witness ==
    /\ C7_Case
    /\ RTSavedValue = 2000
    /\ StartsWith(file.data, Chars("m_acceleration 2.0\n"))

\* C10, as stated: the load of the file with its lines in the other order
\* ends with the same values
C10_AnyPermutation ==
    pc = "rt_loaded" =>
        \A l1, l2 \in RTLines(cvars[1]) :
            hist.before.data = l1 \o l2 =>
                mem = FirstLoad(l2 \o l1, hist.before.garbage).mem

\* the value the record <<name, text>> gives its setting does not depend on
\* what the parser leaves undetermined
Accepted(rec) ==
    LET i == FindCvar(hist.before.cvars, rec[1])
    IN  i # 0 =>
          \A g1, g2 \in GarbageInts :
              StoreParameter(hist.before.cvars[i], rec[2], g1)
                = StoreParameter(hist.before.cvars[i], rec[2], g2)

\* the lines l1 and l2 are each read as one record, alone and together in
\* both orders, the two records name different settings and are accepted
SeparateRecords(l1, l2) ==
    LET r1 == FirstLoad(l1, 0).reads
        r2 == FirstLoad(l2, 0).reads
    IN  /\ Len(r1) = 1 /\ Len(r2) = 1
        /\ FirstLoad(l1 \o l2, 0).reads = r1 \o r2
        /\ FirstLoad(l2 \o l1, 0).reads = r2 \o r1
        /\ r1[1][1] # r2[1][1]
        /\ Accepted(r1[1]) /\ Accepted(r2[1])

\* C10, as amended: when every line of the file is read as one record of
\* its own, the parser accepts every value text and no two records name the
\* same setting, the load of the lines in another order ends with the same
\* value in every setting.
C10_SeparateRecordsCommute ==
    pc = "rt_loaded" =>
        \A l1, l2 \in RTLines(cvars[1]) :
            (hist.before.data = l1 \o l2 /\ SeparateRecords(l1, l2)) =>
                \A garbage \in GarbageInts :
                    /\ mem = FirstLoad(l2 \o l1, garbage).mem
                    /\ cvars = FirstLoad(l2 \o l1, garbage).cvars

\* two records of different settings have been loaded, and both took effect
C10_Witness ==
    /\ pc = "rt_loaded"
    /\ cvars[1].type = "DEFAULT_INT_PERCENT"
    /\ hist.before.data = Chars("am_grid on\npm_walkbob 75%\n")
    /\ SeparateRecords(Chars("am_grid on\n"), Chars("pm_walkbob 75%\n"))
    /\ mem["am_grid"] = 1
    /\ mem["playerbob"] = 75

(***************************************************************************)
(* Lines that are no record, and the end of the loop (SpecRT)              *)
(***************************************************************************)
\* lines that match neither `bind <control> <action>` nor `<name> <value>`
MalformedLines == {Chars("lonely\n")}

\* C11: a line that matches neither grammar is ignored: the load of the file
\* ends with the values, the descriptors and the C_Bind calls of the load of
\* the file without that line.
C11_MalformedLineIgnored ==
    pc = "rt_loaded" =>
        \A u \in MalformedLines, l \in RTLines(cvars[1]) \cup {<<>>} :
            (hist.before.data = u \o l \/ hist.before.data = l \o u) =>
                /\ mem = FirstLoad(l, hist.before.garbage).mem
                /\ cvars = FirstLoad(l, hist.before.garbage).cvars
                /\ binds = FirstLoad(l, hist.before.garbage).binds

(***************************************************************************)
(* Properties of M_LoadDefaults and M_SaveDefaults (Spec)                  *)
(***************************************************************************)
\* the record SaveDefaultCollection writes for cvars[i] from the value its
\* variable holds now, without the line break
RecordNow(i, oob) ==
    cvars[i].name \o <<" ">> \o FormatValue(cvars[i], mem[cvars[i].location], oob)

\* C12: after M_LoadDefaults returns with a writable settings file, the
\* record of every registered setting in the file is the formatted text of
\* the value the setting holds.
C12_FileReflectsValues ==
    (Loaded /\ file.writable) =>
        LET ls == FileLines(file.data)
        IN  \A i \in 1..Len(cvars), oob \in OobReads(cvars) : ls[i] = RecordNow(i, oob)

\* the calls of fopen in the list io of one call, and the handles open after it
IoOpens(io) == Cardinality({k \in 1..Len(io) : io[k] \in {"fopen", "fopen: NULL"}})
IoHandles(io) ==
    Cardinality({k \in 1..Len(io) : io[k] = "fopen"})
    - Cardinality({k \in 1..Len(io) : io[k] = "fclose"})

\* C13: each call of LoadDefaultCollection and of SaveDefaultCollection opens
\* the settings file at most once and leaves no handle open; when the file
\* cannot be opened for reading, Load returns false and leaves the variables
\* and the descriptors as they were; when it cannot be opened for writing,
\* Save writes nothing; the console shows the message of M_LoadDefaults only.
C13_ScopedFile ==
    pc = "running" =>
        /\ \A k \in 1..Len(hist.io) :
              IoOpens(hist.io[k]) <= 1 /\ IoHandles(hist.io[k]) = 0
        /\ (Loaded /\ ~hist.input.exists) =>
              /\ hist.ret = FALSE
              /\ hist.loaded = StartMem(mem["gamemode"])
              /\ cvars = cvarsTable
        /\ ~file.writable => file = hist.input
        /\ console = <<LoadMessage(hist.ret)>>

\* the program has started with no settings file and cannot create one:
\* both calls have tried to open the file
C13_Witness ==
    /\ Loaded
    /\ ~hist.input.exists
    /\ ~file.writable
    /\ ~file.exists
    /\ hist.io = << <<"fopen: NULL">>, <<"fopen: NULL">> >>
    /\ hist.ret = FALSE

\* the state of the read loop of the first run's load after at most k passes
PassState(k) ==
    LoadPasses(hist.before.data,
               [pos |-> 1, eof |-> FALSE, iters |-> 0, cvars |-> hist.before.cvars,
                mem |-> hist.before.mem, binds |-> <<>>, reads |-> <<>>],
               hist.before.garbage, k)

\* C14: LoadDefaultCollection ends on every file: every pass of the read loop
\* made before the end of the file either moves the read position forward or
\* reaches the end of the file, the loop makes no pass after the end of the
\* file and ends there, after at most one pass more than the file has
\* characters.
C14_LoadTerminates ==
    pc = "rt_loaded" =>
        LET last == FirstLoad(hist.before.data, hist.before.garbage)
        IN  /\ \A k \in 0..(PassBound(hist.before.data) - 1) :
                  IF PassState(k).eof
                  THEN PassState(k + 1) = PassState(k)
                  ELSE PassState(k + 1).pos > PassState(k).pos \/ PassState(k + 1).eof
            /\ last.eof
            /\ last.iters <= Len(hist.before.data) + 1
            /\ mem = last.mem

\* a file of a bind record and a setting record has been read in two passes
C14_Witness ==
    /\ pc = "rt_loaded"
    /\ hist.before.data = Chars("bind 'w' +forward\nam_grid on\n")
    /\ ~PassState(1).eof
    /\ PassState(2).eof
    /\ PassState(2).iters = 2
    /\ mem["am_grid"] = 1

\* C15: after M_LoadDefaults every registered setting declared with the
\* on/off alias set 1 holds 0 or 1.
C15_TwoValued ==
    Loaded =>
        \A i \in 1..Len(cvars) :
            cvars[i].set = 1 => mem[cvars[i].location] \in {0, 1}

(***************************************************************************)
(* Properties of parsing and of Key settings (SpecRT)                      *)
(***************************************************************************)
\* value texts that are no alias, no key literal, no hex literal and no number
Unparseable(type) ==
    CASE type \in {"DEFAULT_INT", "DEFAULT_INT_HEX"} -> {Chars("xyz")}
      [] type = "DEFAULT_INT_PERCENT"                -> {Chars("x%"), Chars("%")}
      [] type \in FloatTypes                         -> {Chars("abc")}
      [] OTHER                                       -> {}

\* C16: a value text that is no alias of the set, no key literal, no hex
\* literal and no decimal number is parsed as 0: ParseIntParameter and
\* ParseFloatParameter return 0, and the setting loaded from it holds 0.
C16_ZeroOnFailure ==
    pc = "rt_loaded" =>
        \A t \in Unparseable(cvars[1].type) :
            hist.before.data = Record(cvars[1].name, t) =>
                /\ ParsedAs(1, IF cvars[1].type = "DEFAULT_INT_PERCENT"
                                THEN StripPercent(t) ELSE t, hist.before.garbage) = 0
                /\ mem[RTLocation] = 0

\* what the scancode table gives the raw scancode r: scantokey[r], the
\* invalid marker outside 0..127
Translated(r) == IF r >= 0 /\ r <= 127 THEN scantokey[r + 1] ELSE INVALIDKEY

\* C17: after the load of a file of one record of a Key setting whose text
\* is parsed as the raw value r, the descriptor has untranslated = r, and
\* original_translated and the variable both hold scantokey[r] when r is in
\* 0..127 and -1 otherwise; the decimal text of r is parsed as r.
C17_KeyStore ==
    (/\ pc = "rt_loaded"
     /\ cvars[1].type = "DEFAULT_KEY"
     /\ Len(hist.reads) = 1
     /\ hist.reads[1][1] = cvars[1].name) =>
        LET r == ParseIntParameter(hist.reads[1][2], cvars[1].set, hist.before.garbage)
        IN  /\ cvars[1].untranslated = r
            /\ cvars[1].original_translated = Translated(r)
            /\ mem[RTLocation] = Translated(r)
            /\ \A r0 \in RawScancodes :
                  hist.before.data = Record(cvars[1].name, FmtInt(r0)) => r = r0

\* `key_fire 200` has been loaded: a raw value outside the table
C17_Witness ==
    /\ pc = "rt_loaded"
    /\ hist.before.data = Chars("key_fire 200\n")
    /\ cvars[1].untranslated = 200
    /\ cvars[1].original_translated = INVALIDKEY
    /\ mem["key_fire"] = INVALIDKEY

\* the raw scancodes whose translation is the key code v
ScancodesOf(v) == {s \in 0..127 : scantokey[s + 1] = v}

\* a Key setting was changed at run time to a key code some scancode
\* translates to, saved, and loaded by the next run
C18_Case ==
    /\ pc = "rt_end"
    /\ cvars[1].type = "DEFAULT_KEY"
    /\ hist.ops = <<"load", "set", "save", "load">>
    /\ RTSavedValue # hist.atsave.cvars[1].original_translated
    /\ ScancodesOf(RTSavedValue) # {}

\* C18: when a Key setting's value v differs from the value recorded at load
\* and some raw scancode translates to v, Save writes the first raw scancode
\* s with scantokey[s] = v as its alias, else as the quoted character it
\* translates to, else as its number, and the load of the written record
\* gives untranslated = s and the value v.
C18_ChangedKeyRoundTrip ==
    C18_Case =>
        LET s == FirstOr(ScancodesOf(RTSavedValue), -1)
        IN  /\ ValueText(1) = FormatScancode(s, cvars[1].set, 0)
            /\ cvars[1].untranslated = s
            /\ mem[RTLocation] = RTSavedValue

(***************************************************************************)
(* Line endings (SpecRT)                                                   *)
(***************************************************************************)
RECURSIVE ToCRLF(_)
\* the text with every line ended by CR LF
ToCRLF(t) ==
    IF Len(t) = 0 THEN <<>>
    ELSE LET n == Len(t)
             front == ToCRLF(SubSeq(t, 1, n - 1))
         IN  IF t[n] = NL /\ (n = 1 \/ t[n - 1] # CR)
             THEN front \o <<CR, NL>>
             ELSE Append(front, t[n])

RECURSIVE ToLF(_)
\* the text with every line ended by LF alone
ToLF(t) ==
    IF Len(t) = 0 THEN <<>>
    ELSE IF t[1] = CR /\ Len(t) > 1 /\ t[2] = NL THEN ToLF(Tail(t))
    ELSE <<t[1]>> \o ToLF(Tail(t))

\* C19: the trailing non-printable characters of a value text are stripped
\* before it is parsed: the load of a settings file gives every registered
\* setting, and the descriptor of every Key setting, what the load of the
\* same records with CR LF line endings gives and what the load of the same
\* records with LF line endings gives.
C19_LineEndings ==
    pc = "rt_loaded" =>
        LET crlf == FirstLoad(ToCRLF(hist.before.data), hist.before.garbage)
            lf   == FirstLoad(ToLF(hist.before.data), hist.before.garbage)
        IN  /\ \A k \in 1..Len(hist.reads) :
                  Len(hist.reads[k]) = 2 =>
                      \A j \in 1..Len(hist.reads[k][2]) : hist.reads[k][2][j] # CR
            /\ mem = crlf.mem /\ cvars = crlf.cvars
            /\ mem = lf.mem /\ cvars = lf.cvars

\* `am_grid on` and then `am_grid off` with CR LF were loaded: the grid is off
C19_Witness ==
    /\ pc = "rt_loaded"
    /\ hist.before.data = Chars("am_grid on\nam_grid off\r\n")
    /\ ToLF(hist.before.data) = Chars("am_grid on\nam_grid off\n")
    /\ ToCRLF(hist.before.data) = Chars("am_grid on\r\nam_grid off\r\n")
    /\ hist.reads = << <<Chars("am_grid"), Chars("on")>>, <<Chars("am_grid"), Chars("off")>> >>
    /\ mem["am_grid"] = 0

(***************************************************************************)
(* What M_SaveDefaults leaves alone (Spec)                                 *)
(***************************************************************************)
\* C20: a call of M_SaveDefaults changes no setting's live value: after it
\* returns, widescreen and every other variable hold the values they had
\* before the call, whatever the value of returntowidescreen.
C20_SaveKeepsValues ==
    [][(pc = "running" /\ pc' = "running" /\ hist'.last = "save") => mem' = mem]_vars

(***************************************************************************)
(* The indexes scantokey is read with (SpecRT)                             *)
(***************************************************************************)
\* the indexes the DEFAULT_KEY case of LoadDefaultCollection reads scantokey
\* with for the parsed value intparm: the read is inside the range test
LoadScantokeyReads(intparm) ==
    IF intparm >= 0 /\ intparm < 128 THEN {intparm} ELSE {}

\* the indexes the DEFAULT_KEY case of SaveDefaultCollection reads scantokey
\* with for descriptor d whose variable holds v: an unchanged key without an
\* alias reads scantokey[untranslated]; a changed one is searched for with
\* s = 0..127 and the scancode found, when it has no alias, is read again
SaveScantokeyReads(d, v) ==
    IF d.untranslated # 0 /\ v = d.original_translated
    THEN IF AliasOfValue(d.untranslated, d.set) = 0 THEN {d.untranslated} ELSE {}
    ELSE LET hits == {s \in 0..127 : scantokey[s + 1] = v}
         IN  IF hits = {} THEN 0..127 ELSE 0..FirstOr(hits, 0)

\* C22: every read of the 128-entry scancode table during Load and Save uses
\* an index in 0..127, for every Key descriptor state reached by loading a
\* file (records with a raw scancode below 0 or above 127 included) and
\* then saving.
C22_ScantokeyIndexInRange ==
    /\ (pc = "rt_loaded" /\ cvars[1].type = "DEFAULT_KEY") =>
           LoadScantokeyReads(cvars[1].untranslated) \subseteq 0..127
    /\ (pc = "rt_saved" /\ cvars[1].type = "DEFAULT_KEY") =>
           SaveScantokeyReads(hist.atsave.cvars[1], RTSavedValue) \subseteq 0..127

(***************************************************************************)
(* The gamma correction level (Spec)                                       *)
(***************************************************************************)
\* the 0-based indexes of the gamma table that hold the level g
GammaEntries(g) == {i \in 0..(headers.GAMMALEVELS - 1) : gammalevels[i + 1] = g}

\* C23: after M_CheckDefaults gammaindex is an index 0..GAMMALEVELS-1 of the
\* gamma table; when the clamped gammalevel is an entry of gammalevels, the
\* last one included, gammalevels[gammaindex] is gammalevel, and otherwise
\* gammaindex is the index of GAMMALEVEL_DEFAULT.
C23_GammaIndex ==
    Loaded =>
        /\ mem["gammaindex"] \in 0..(headers.GAMMALEVELS - 1)
        /\ IF GammaEntries(mem["gammalevel"]) # {}
           THEN mem["gammaindex"] \in GammaEntries(mem["gammalevel"])
           ELSE mem["gammaindex"] \in GammaEntries(headers.GAMMALEVEL_DEFAULT)

(***************************************************************************)
(* The music driver (src/src/i_music.c), compiled for Windows              *)
(*                                                                         *)
(* mem holds the driver's variables, the song handle its caller keeps and, *)
(* in mem.sdl and mem.rpc, what SDL, SDL_mixer and the MIDI server hold.   *)
(* hist records, for the properties, who opened the mixer, whether the     *)
(* song is paused and the volume last set.                                 *)
(***************************************************************************)
MIX_MAX_VOLUME == 128

MaxCalls == 6       \* calls of the driver made in one run

\* the volumes I_SetMusicVolume is called with
MusicVolumes == {0, 64, 127}

\* the lumps I_RegisterSong is given: a MIDI file, a MUS lump, an OGG file,
\* and data of no known format
SongKinds == {"midi", "mus", "ogg", "unknown"}

\* SDL and SDL_mixer before the driver is initialised; opened is 1 when
\* another module has opened the mixer already, else 0
SdlStart(opened) ==
    [ audio_subsystem |-> opened,   \* SDL_InitSubSystem(SDL_INIT_AUDIO) calls not yet undone
      audio_opened    |-> opened,   \* what Mix_QuerySpec returns
      audio_paused    |-> TRUE,
      music_volume    |-> MIX_MAX_VOLUME,
      music_playing   |-> FALSE,
      music_loops     |-> 0,
      music_paused    |-> FALSE ]

\* the MIDI server's client side (i_midirpc), as the driver's calls leave it
RpcStart == [ client |-> FALSE, volume |-> 0, playing |-> FALSE, paused |-> FALSE ]

\* the driver's variables when the program starts: statics are zero, and
\* temp_timidity_cfg is NULL (I_InitTimidityConfig found no configuration)
MusicStart(opened) ==
    [ music_initialized    |-> FALSE,
      sdl_was_initialized  |-> FALSE,
      current_music_volume |-> 0,
      paused_midi_volume   |-> 0,
      musictype            |-> "MUSTYPE_NONE",
      haveMidiServer       |-> FALSE,
      haveMidiClient       |-> FALSE,
      serverMidiPlaying    |-> FALSE,
      temp_timidity_cfg    |-> "NULL",
      handle               |-> "NULL",
      sdl                  |-> SdlStart(opened),
      rpc                  |-> RpcStart ]

\* nothing has been called: the driver has opened no mixer and closed none
\* it had not opened, no song is paused or was resumed, no volume has been set
MusicHist ==
    [ opened |-> FALSE, closed_foreign |-> FALSE, paused |-> FALSE,
      resumed |-> FALSE, setvol |-> -1, last |-> "none", ret |-> TRUE, calls |-> 0 ]

\* Mix_VolumeMusic(volume): a negative volume only queries; the volume
\* before the call is returned
Mix_VolumeMusic(sdl, volume) ==
    [ sdl |-> IF volume < 0 THEN sdl
              ELSE [sdl EXCEPT !.music_volume =
                        IF volume > MIX_MAX_VOLUME THEN MIX_MAX_VOLUME ELSE volume],
      ret |-> sdl.music_volume ]

\* Mix_CloseAudio and SDL_QuitSubSystem(SDL_INIT_AUDIO), as I_ShutdownMusic
\* calls them: each undoes one open
CloseAudio(sdl) ==
    [sdl EXCEPT !.audio_opened = IF @ > 0 THEN @ - 1 ELSE 0,
                !.audio_subsystem = IF @ > 0 THEN @ - 1 ELSE 0]

SDLIsInitialized(m) == m.sdl.audio_opened # 0

RemoveTimidityConfig(m) ==
    IF m.temp_timidity_cfg # "NULL" THEN [m EXCEPT !.temp_timidity_cfg = "freed"] ELSE m

I_ShutdownMusic(m) ==
    IF m.music_initialized
    THEN [m EXCEPT !.music_initialized = FALSE, !.sdl_was_initialized = FALSE,
                   !.sdl = IF m.sdl_was_initialized
                           THEN CloseAudio([@ EXCEPT !.music_playing = FALSE])
                           ELSE [@ EXCEPT !.music_playing = FALSE],
                   !.rpc.client = FALSE]
    ELSE m

\* I_InitMusic; initok, openok and server are what SDL_InitSubSystem,
\* Mix_OpenAudio and I_MidiRPCInitServer answer
I_InitMusic(m, initok, openok, server) ==
    IF ~SDLIsInitialized(m) /\ ~(initok /\ openok)
    THEN [m |-> m, ret |-> FALSE]
    ELSE [m |-> RemoveTimidityConfig(
                   [m EXCEPT !.sdl = [(IF SDLIsInitialized(m) THEN @
                                       ELSE [@ EXCEPT !.audio_subsystem = @ + 1,
                                                      !.audio_opened = 1])
                                      EXCEPT !.audio_paused = FALSE],
                             !.sdl_was_initialized = TRUE,
                             !.music_initialized = TRUE,
                             !.haveMidiServer = server]),
          ret |-> TRUE]

UpdateMusicVolume(m) ==
    IF m.serverMidiPlaying
    THEN [m EXCEPT !.rpc.volume = m.current_music_volume]
    ELSE [m EXCEPT !.sdl = Mix_VolumeMusic(@, m.current_music_volume).sdl]

I_SetMusicVolume(m, volume) ==
    UpdateMusicVolume([m EXCEPT !.current_music_volume = volume])

I_PlaySong(m, looping) ==
    IF ~m.music_initialized THEN m
    ELSE IF m.serverMidiPlaying THEN [m EXCEPT !.rpc.playing = TRUE]
    ELSE IF m.handle # "NULL"
         THEN [m EXCEPT !.sdl.music_playing = TRUE,
                        !.sdl.music_loops = IF looping THEN -1 ELSE 1]
    ELSE m

I_PauseSong(m) ==
    IF ~m.music_initialized THEN m
    ELSE IF m.serverMidiPlaying THEN [m EXCEPT !.rpc.paused = TRUE]
    ELSE IF m.musictype # "MUSTYPE_MIDI" THEN [m EXCEPT !.sdl.music_paused = TRUE]
    ELSE [m EXCEPT !.paused_midi_volume = Mix_VolumeMusic(m.sdl, -1).ret,
                   !.sdl = Mix_VolumeMusic(@, 0).sdl]

I_ResumeSong(m) ==
    IF ~m.music_initialized THEN m
    ELSE IF m.serverMidiPlaying THEN [m EXCEPT !.rpc.paused = FALSE]
    ELSE IF m.musictype # "MUSTYPE_MIDI" THEN [m EXCEPT !.sdl.music_paused = FALSE]
    ELSE [m EXCEPT !.sdl = Mix_VolumeMusic(@, m.paused_midi_volume).sdl]

I_StopSong(m) ==
    IF ~m.music_initialized THEN m
    ELSE IF m.serverMidiPlaying
         THEN [m EXCEPT !.rpc.playing = FALSE, !.serverMidiPlaying = FALSE]
    ELSE [m EXCEPT !.sdl.music_playing = FALSE]

I_UnRegisterSong(m) ==
    IF ~m.music_initialized THEN m
    ELSE IF m.serverMidiPlaying
         THEN [m EXCEPT !.rpc.playing = FALSE, !.serverMidiPlaying = FALSE]
    ELSE [m EXCEPT !.handle = "NULL"]

\* I_RegisterSong for a lump of the given kind: the handle it returns is the
\* caller's from then on.  converts, client and registers are what mmus2mid,
\* I_MidiRPCInitClient and I_MidiRPCRegisterSong answer
I_RegisterSong(m, kind, converts, client, registers) ==
    LET isMIDI == kind = "midi" \/ kind = "mus"
        first  == CASE kind = "midi" -> "MUSTYPE_MIDI"
                    [] kind = "mus" -> "MUSTYPE_MUS"
                    [] OTHER -> "MUSTYPE_NONE"
        Mixer(mm) ==
            CASE isMIDI -> [mm EXCEPT !.musictype = "MUSTYPE_MIDI", !.handle = "music"]
              [] kind = "ogg" -> [mm EXCEPT !.musictype = "MUSTYPE_OGG", !.handle = "music"]
              [] OTHER -> [mm EXCEPT !.handle = "NULL"]
        Server(mm) ==
            IF isMIDI /\ mm.haveMidiServer
            THEN LET hc == mm.haveMidiClient \/ client
                     m1 == [mm EXCEPT !.haveMidiClient = hc,
                                      !.rpc.client = @ \/ hc,
                                      !.rpc.volume = IF ~mm.haveMidiClient /\ client
                                                     THEN mm.current_music_volume ELSE @]
                 IN  IF hc /\ registers
                     THEN [m1 EXCEPT !.serverMidiPlaying = TRUE, !.handle = "NULL"]
                     ELSE Mixer(m1)
            ELSE Mixer(mm)
    IN  IF ~m.music_initialized THEN [m EXCEPT !.handle = "NULL"]
        ELSE IF kind = "mus" /\ ~converts
             THEN [m EXCEPT !.musictype = "MUSTYPE_MUS", !.handle = "NULL"]
        ELSE Server([m EXCEPT !.musictype = first])

\* the program starts; the sound module may have opened the mixer already
InitM ==
    /\ \E opened \in {0, 1} : mem = MusicStart(opened)
    /\ hist = MusicHist
    /\ cvars = <<>>
    /\ file = [exists |-> FALSE, writable |-> FALSE, data |-> <<>>]
    /\ binds = <<>>
    /\ actions = NoActions
    /\ console = <<>>
    /\ pc = "music"

\* a call that is not one of I_PauseSong, I_ResumeSong, I_SetMusicVolume
\* begins a new sequence of those
OtherCall(name, ret) ==
    [hist EXCEPT !.paused = FALSE, !.resumed = FALSE, !.setvol = -1,
                 !.last = name, !.ret = ret, !.calls = @ + 1]

InitMusic ==
    /\ pc = "music"
    /\ hist.calls < MaxCalls
    /\ \E initok \in BOOLEAN, openok \in BOOLEAN, server \in BOOLEAN :
          \E r \in {I_InitMusic(mem, initok, openok, server)} :
              /\ mem' = r.m
              /\ hist' = [OtherCall("init", r.ret) EXCEPT
                              !.opened = @ \/ (r.ret /\ ~SDLIsInitialized(mem))]
    /\ UNCHANGED <<cvars, file, binds, actions, console, pc>>

ShutdownMusic ==
    /\ pc = "music"
    /\ hist.calls < MaxCalls
    /\ mem' = I_ShutdownMusic(mem)
    /\ hist' = IF mem'.sdl.audio_opened # mem.sdl.audio_opened
               THEN [OtherCall("shutdown", TRUE) EXCEPT
                        !.opened = FALSE,
                        !.closed_foreign = @ \/ ~hist.opened]
               ELSE OtherCall("shutdown", TRUE)
    /\ UNCHANGED <<cvars, file, binds, actions, console, pc>>

RegisterSong ==
    /\ pc = "music"
    /\ hist.calls < MaxCalls
    /\ mem.handle = "NULL"
    /\ \E kind \in SongKinds, converts \in BOOLEAN, client \in BOOLEAN,
          registers \in BOOLEAN :
          mem' = I_RegisterSong(mem, kind, converts, client, registers)
    /\ hist' = OtherCall("register", TRUE)
    /\ UNCHANGED <<cvars, file, binds, actions, console, pc>>

PlaySong ==
    /\ pc = "music"
    /\ hist.calls < MaxCalls
    /\ \E looping \in BOOLEAN : mem' = I_PlaySong(mem, looping)
    /\ hist' = OtherCall("play", TRUE)
    /\ UNCHANGED <<cvars, file, binds, actions, console, pc>>

StopSong ==
    /\ pc = "music"
    /\ hist.calls < MaxCalls
    /\ mem' = I_StopSong(mem)
    /\ hist' = OtherCall("stop", TRUE)
    /\ UNCHANGED <<cvars, file, binds, actions, console, pc>>

UnRegisterSong ==
    /\ pc = "music"
    /\ hist.calls < MaxCalls
    /\ mem' = I_UnRegisterSong(mem)
    /\ hist' = OtherCall("unregister", TRUE)
    /\ UNCHANGED <<cvars, file, binds, actions, console, pc>>

SetMusicVolume ==
    /\ pc = "music"
    /\ hist.calls < MaxCalls
    /\ \E volume \in MusicVolumes :
          /\ mem' = I_SetMusicVolume(mem, volume)
          /\ hist' = [hist EXCEPT !.setvol = volume, !.resumed = FALSE,
                                  !.last = "setvolume", !.calls = @ + 1]
    /\ UNCHANGED <<cvars, file, binds, actions, console, pc>>

PauseSong ==
    /\ pc = "music"
    /\ hist.calls < MaxCalls
    /\ mem' = I_PauseSong(mem)
    /\ hist' = [hist EXCEPT !.paused = @ \/ mem.music_initialized, !.resumed = FALSE,
                            !.last = "pause", !.calls = @ + 1]
    /\ UNCHANGED <<cvars, file, binds, actions, console, pc>>

ResumeSong ==
    /\ pc = "music"
    /\ hist.calls < MaxCalls
    /\ mem' = I_ResumeSong(mem)
    /\ hist' = [hist EXCEPT !.paused = @ /\ ~mem.music_initialized,
                            !.resumed = hist.paused /\ mem.music_initialized,
                            !.last = "resume", !.calls = @ + 1]
    /\ UNCHANGED <<cvars, file, binds, actions, console, pc>>

NextM ==
    \/ InitMusic \/ ShutdownMusic \/ RegisterSong \/ PlaySong \/ StopSong
    \/ UnRegisterSong \/ SetMusicVolume \/ PauseSong \/ ResumeSong

SpecMusic == InitM /\ [][NextM]_vars

(***************************************************************************)
(* Properties of the music driver (SpecMusic)                              *)
(***************************************************************************)
\* C21: sdl_was_initialized is true only if the driver itself opened the
\* audio mixer (the mixer was not open when I_InitMusic was called), so
\* after any sequence of I_InitMusic and I_ShutdownMusic calls
\* I_ShutdownMusic has closed the mixer only when the driver had opened it.
C21_ClosesOnlyItsOwnMixer ==
    pc = "music" =>
        /\ mem.sdl_was_initialized => hist.opened
        /\ ~hist.closed_foreign

\* MIDI music, the driver initialised, no MIDI server playing
MidiOnMixer ==
    /\ pc = "music"
    /\ mem.music_initialized
    /\ mem.musictype = "MUSTYPE_MIDI"
    /\ ~mem.serverMidiPlaying

\* C24: for MIDI music with the driver initialised and no MIDI server
\* playing, after any sequence of I_PauseSong, I_ResumeSong and
\* I_SetMusicVolume calls the mixer volume is 0 whenever the song is paused,
\* and after a resume it is the music volume most recently set.
C24_PausedVolume ==
    MidiOnMixer =>
        /\ hist.paused => mem.sdl.music_volume = 0
        /\ (hist.resumed /\ hist.setvol # -1) =>
               mem.sdl.music_volume = hist.setvol

====
